---- MODULE Spec2Model ----
(***************************************************************************)
(* State-machine model of the PDF document engine of rspdft                *)
(* (crates/pdf-core/src/document.rs, font.rs): font registration, the      *)
(* current drawing state, buffered text and image inserts, page            *)
(* duplication and the phases of the save pipeline, over an explicit       *)
(* object graph.                                                           *)
(***************************************************************************)
EXTENDS Integers, Sequences, FiniteSets, TLC

(***************************************************************************)
(* Bounds of the exploration.                                              *)
(***************************************************************************)
\* The number of calls that grow the document (buffering inserts, page
\* additions, saves) in one run.
MaxOps == 4
\* The number of buffering text inserts where font registration is explored.
MaxFontInserts == 2

(***************************************************************************)
(* Input domains.                                                          *)
(***************************************************************************)
\* Names given to add_font / register_font_family.
FontNames == {"a", "a-bold"}
\* Code points ('A', 'B') and the texts given to insert_text.
Chars == {65, 66}
Texts == {<< >>, <<65>>, <<66, 65>>}
\* TrueType byte blobs: a parseable face and an unparseable one (the builders
\* also use "part", a face that lacks a glyph for 'B').
BadTTF == "bad"
TTFs == {"full", BadTTF}
Absent == "absent"
\* Image byte blobs: one decodable image and one that is neither JPEG nor PNG.
BadImage == "notimage"
Images == {"img", BadImage}
\* (family, chain) arguments of set_font_fallback; "zz" is never registered.
FallbackInputs == {<<"a", <<"a-bold">>>>, <<"a", <<"zz">>>>}
\* Page numbers given to the page operations.
Pages == {0, 1, 2}
Weights == {"Regular", "Bold"}
Styles == {"Normal", "Italic"}
NoFamily == "<none>"
\* Font sizes in points; a document opens with 12.
DefaultSize == 12
Sizes == {12, 16}
\* Alignments of insert_text.
Aligns == {"Left", "Center", "Right"}

(***************************************************************************)
(* Font descriptor (font.rs)                                               *)
(***************************************************************************)
VariantOrder == <<"regular", "bold", "italic", "bold_italic">>
VariantKeys == {"regular", "bold", "italic", "bold_italic"}

\* Option::None for a family variant.
NoFont == [present |-> FALSE]

\* Glyph coverage of a parsed face: the code points with a non-zero glyph.
Glyphs(ttf) == IF ttf = "full" THEN {65, 66} ELSE IF ttf = "part" THEN {65} ELSE {}

\* face.glyph_index(c): the face's own glyph id of a code point (0 = none).
glyph_id(ttf, c) == IF c \in Glyphs(ttf) THEN c - 60 ELSE 0

has_glyph(fd, c) == glyph_id(fd.ttf, c) # 0

\* Lengths are integers: advances in hundredths of the em, font sizes in
\* points, positions and widths in hundredths of a point.  Every advance is
\* even, so that half of a text width is exact.
\* face.glyph_hor_advance of a code point; none without a glyph.
glyph_advance(fd, c) ==
    IF ~has_glyph(fd, c) THEN 0
    ELSE IF fd.ttf = "full" THEN 60 + 20 * (c - 65)
    ELSE 40

RECURSIVE text_width(_, _)
text_width(fd, text) ==
    IF text = << >> THEN 0
    ELSE glyph_advance(fd, Head(text)) + text_width(fd, Tail(text))

text_width_points(fd, text, font_size) == text_width(fd, text) * font_size

from_ttf_ok(ttf) == ttf # BadTTF

from_ttf(name, ttf) ==
    [present |-> TRUE, name |-> name, ttf |-> ttf, used_chars |-> {},
     has_subset |-> FALSE, subset_chars |-> {}]

RECURSIVE CharsOf(_)
CharsOf(text) == IF text = << >> THEN {} ELSE {Head(text)} \cup CharsOf(Tail(text))

add_chars(fd, text) == [fd EXCEPT !.used_chars = @ \cup CharsOf(text)]

get_variant(family, weight, style) ==
    IF weight = "Bold" /\ style = "Italic" THEN
        IF family.bold_italic.present THEN family.bold_italic
        ELSE IF family.bold.present THEN family.bold
        ELSE IF family.italic.present THEN family.italic
        ELSE family.regular
    ELSE IF weight = "Bold" THEN
        IF family.bold.present THEN family.bold ELSE family.regular
    ELSE IF style = "Italic" THEN
        IF family.italic.present THEN family.italic ELSE family.regular
    ELSE family.regular

get_variant_name(family_name, weight, style) ==
    IF weight = "Bold" /\ style = "Italic" THEN family_name \o "-bold-italic"
    ELSE IF weight = "Bold" THEN family_name \o "-bold"
    ELSE IF style = "Italic" THEN family_name \o "-italic"
    ELSE family_name

\* FontFamilyBuilder: each variant is Absent or a TTF blob.
Builder(r, b, i, bi) == [regular |-> r, bold |-> b, italic |-> i, bold_italic |-> bi]

Builders ==
    { Builder("part", Absent, Absent, Absent),
      Builder("part", "full", Absent, Absent),
      Builder(Absent, "full", Absent, Absent),
      Builder("full", BadTTF, Absent, Absent) }

build_ok(b) ==
    /\ b.regular # Absent
    /\ \A v \in VariantKeys : b[v] # Absent => from_ttf_ok(b[v])

BuildVariant(b, v, name) == IF b[v] = Absent THEN NoFont ELSE from_ttf(name, b[v])

build(b, family_name) ==
    [regular |-> BuildVariant(b, "regular", family_name \o "-regular"),
     bold |-> BuildVariant(b, "bold", family_name \o "-bold"),
     italic |-> BuildVariant(b, "italic", family_name \o "-italic"),
     bold_italic |-> BuildVariant(b, "bold_italic", family_name \o "-bold-italic")]

(***************************************************************************)
(* Document state (document.rs, struct PdfDocument)                        *)
(***************************************************************************)
VARIABLES
    objects,              \* inner.objects: object id -> object
    max_id,               \* inner.max_id
    fonts,                \* legacy fonts: name -> descriptor
    font_families,        \* family name -> family
    family_order,         \* iteration order of the font_families hash map
    current_family,
    current_weight,
    current_style,
    current_font_size,
    embedded_fonts,       \* font name -> Type0 object id
    page_font_resources,  \* page -> (font name -> tag number n of "Fn")
    next_font_resource,
    embedded_images,      \* image data (hash) -> object id
    page_image_resources, \* page -> (tag number n of "Imn" -> object id)
    next_image_resource,
    font_fallbacks,       \* family -> list of fallback families
    page_content_buffer,  \* page -> buffered operator blocks
    buffered_text_ops,    \* buffered text operations
    pc,                   \* the next phase of a running save ("idle" outside)
    last,                 \* the last completed call and its result
    history               \* the calls that grew the document, in order

vars == <<objects, max_id, fonts, font_families, family_order, current_family,
          current_weight, current_style, current_font_size, embedded_fonts,
          page_font_resources,
          next_font_resource, embedded_images, page_image_resources,
          next_image_resource, font_fallbacks, page_content_buffer,
          buffered_text_ops, pc, last, history>>

fontVars == <<fonts, font_families, family_order>>
drawVars == <<current_family, current_weight, current_style, current_font_size>>
graphVars == <<objects, max_id>>
fontResVars == <<page_font_resources, next_font_resource>>
imageVars == <<embedded_images, page_image_resources, next_image_resource>>
bufferVars == <<page_content_buffer, buffered_text_ops>>

Idle == "idle"

EmptyMap == [x \in {} |-> 0]

Put(m, k, v) == [x \in DOMAIN m \cup {k} |-> IF x = k THEN v ELSE m[x]]

Result(op, res) == [op |-> op, res |-> res]

\* Err(PdfError::FontAlreadyExists(name)), Err(PdfError::FontNotFound(name)).
NamedError(op, res, name) == [op |-> op, res |-> res, name |-> name]

\* Err(PdfError::InvalidPage(given, total)).
InvalidPage(op, given, total) ==
    [op |-> op, res |-> "InvalidPage", given |-> given, total |-> total]

\* A page check that also rejects the last page.
rejects_last_page(page, total) == page = 0 \/ page >= total

\* page == 0 || page > page_count
invalid_page(page, total) == page = 0 \/ page > total

\* Ok(page number) of add_blank_page and duplicate_page.
PageResult(op, page) == [op |-> op, res |-> "Ok", page |-> page]

\* The run may still grow the document.
Budget == Len(history) < MaxOps

\* The number of inserts that buffered something.
inserts == Cardinality({i \in DOMAIN history : history[i] \in {"insert_text", "insert_image"}})

\* The number of completed saves.
saves == Cardinality({i \in DOMAIN history : history[i] = "save"})

(***************************************************************************)
(* Object graph helpers (lopdf Document)                                   *)
(***************************************************************************)
CatalogId == 1
RootPagesId == 2
TemplateBlock == [kind |-> "template"]

StreamObj(content) == [kind |-> "stream", content |-> content]

PageObj(parent, contents, mediabox) ==
    [kind |-> "page", parent |-> parent, contents |-> contents,
     mediabox |-> mediabox, font |-> EmptyMap, xobject |-> EmptyMap]

\* A page dictionary keeps the entries of its Resources in the fields font,
\* xobject and, in the templates that have one, extgstate.  The field
\* resources, where present, tells whether Resources is a direct dictionary
\* or an indirect reference to one.
ResourcesForm(page_dict) ==
    IF "resources" \in DOMAIN page_dict THEN page_dict.resources ELSE "direct"

\* page_dict.get(b"Resources") ... as_dict(): the dictionary the attachment
\* goes on with, empty when Resources is not a direct dictionary.
resources_dict(page_dict) ==
    IF ResourcesForm(page_dict) = "ref"
    THEN [font |-> EmptyMap, xobject |-> EmptyMap, extgstate |-> {}]
    ELSE [font |-> page_dict.font, xobject |-> page_dict.xobject,
          extgstate |-> IF "extgstate" \in DOMAIN page_dict
                        THEN page_dict.extgstate ELSE {}]

\* new_page_dict.set(b"Resources", Object::Dictionary(...))
set_resources(page_dict, r) ==
    IF "resources" \in DOMAIN page_dict
    THEN [page_dict EXCEPT !.font = r.font, !.xobject = r.xobject,
                           !.extgstate = r.extgstate, !.resources = "direct"]
    ELSE [page_dict EXCEPT !.font = r.font, !.xobject = r.xobject]

\* Templates whose page already has resources: a font under font_tag, an
\* image under tag 1 and a graphics state, in a Resources dictionary that is
\* direct or referenced.
ResourceTemplate(form, font_tag) == [form |-> form, font_tag |-> font_tag]

ResourceTemplateObjects(t) ==
    <<[kind |-> "catalog", pages |-> RootPagesId],
      [kind |-> "pages", kids |-> <<3>>, count |-> 1],
      [kind |-> "page", parent |-> RootPagesId, contents |-> <<"ref", 4>>,
       mediabox |-> "ok", font |-> Put(EmptyMap, t.font_tag, 5),
       xobject |-> Put(EmptyMap, 1, 6), extgstate |-> {"GS0"},
       resources |-> t.form],
      StreamObj(<<TemplateBlock>>),
      [kind |-> "templatefont"],
      [kind |-> "templateimage"]>>

\* Templates: Contents as one indirect reference or as an array of
\* references; a MediaBox that is readable or one with too few entries.
Templates ==
    { [contents |-> <<"ref", 4>>, streams |-> 1, mediabox |-> "ok"],
      [contents |-> <<"array", <<4, 5>>>>, streams |-> 2, mediabox |-> "ok"],
      [contents |-> <<"ref", 4>>, streams |-> 1, mediabox |-> "short"] }

TemplateObjects(t) ==
    [id \in 1..(3 + t.streams) |->
        IF id = CatalogId THEN [kind |-> "catalog", pages |-> RootPagesId]
        ELSE IF id = RootPagesId THEN [kind |-> "pages", kids |-> <<3>>, count |-> 1]
        ELSE IF id = 3 THEN PageObj(RootPagesId, t.contents, t.mediabox)
        ELSE StreamObj(<<TemplateBlock>>)]

\* Templates for the page height: the page (level 0) is followed by `depth`
\* intermediate Pages nodes (levels 1..depth) linked by Parent; the node at
\* the top refers to the root Pages node (level depth + 1) or, in a cyclic
\* chain, back to the first intermediate node.  One dictionary, at
\* box_level, carries the MediaBox `box`; box_level = -1 puts it nowhere.
\* Only the Parent links are modelled: the root's Kids still lists the page.
BoxTemplate(depth, top, box_level, box) ==
    [depth |-> depth, top |-> top, box_level |-> box_level, box |-> box]

BoxTemplateObjects(t) ==
    LET BoxAt(level) == IF level = t.box_level THEN t.box ELSE "none"
        root_level == IF t.top = "root" THEN t.depth + 1 ELSE -2
    IN [id \in 1..(4 + t.depth) |->
        IF id = CatalogId THEN [kind |-> "catalog", pages |-> RootPagesId]
        ELSE IF id = RootPagesId
             THEN [kind |-> "pages", kids |-> <<3>>, count |-> 1,
                   mediabox |-> BoxAt(root_level)]
        ELSE IF id = 3
             THEN PageObj(IF t.depth = 0 THEN RootPagesId ELSE 5, <<"ref", 4>>, BoxAt(0))
        ELSE IF id = 4 THEN StreamObj(<<TemplateBlock>>)
        ELSE [kind |-> "pages", kids |-> << >>, count |-> 0,
              mediabox |-> BoxAt(id - 4),
              parent |-> IF id - 4 < t.depth THEN id + 1
                         ELSE IF t.top = "root" THEN RootPagesId
                         ELSE 5]]

\* inner.get_pages(): page number -> page object id, in Kids order.
get_pages == objects[objects[CatalogId].pages].kids

page_count == Len(get_pages)

\* inner.add_object(obj) on a graph g whose highest id is m.
add_object(g, m, obj) == [id \in 1..(m + 1) |-> IF id = m + 1 THEN obj ELSE g[id]]

(***************************************************************************)
(* Font lookup by name                                                     *)
(***************************************************************************)
\* The (family, variant) slots holding a descriptor called `name`, in the
\* order get_font_data visits them: families in hash-map iteration order,
\* variants in the order regular, bold, italic, bold_italic.
SlotsOfFamily(f, name) ==
    SelectSeq([i \in 1..4 |-> <<"family", f, VariantOrder[i]>>],
              LAMBDA s : /\ font_families[f][s[3]].present
                         /\ font_families[f][s[3]].name = name)

RECURSIVE SlotsFrom(_, _)
SlotsFrom(order, name) ==
    IF order = << >> THEN << >>
    ELSE SlotsOfFamily(Head(order), name) \o SlotsFrom(Tail(order), name)

NoSlot == <<"none", "", "">>

\* get_font_data / get_font_data_mut: the slot the lookup returns.
get_font_slot(name) ==
    LET s == SlotsFrom(family_order, name) IN
    IF s # << >> THEN s[1]
    ELSE IF name \in DOMAIN fonts THEN <<"legacy", name, "regular">>
    ELSE NoSlot

SlotData(s) == IF s[1] = "family" THEN font_families[s[2]][s[3]] ELSE fonts[s[2]]

get_font_data(name) == SlotData(get_font_slot(name))

\* All live descriptor slots (every variant of every family, every legacy font).
AllSlots ==
    {<<"family", f, v>> : f \in DOMAIN font_families, v \in VariantKeys}
      \cup {<<"legacy", n, "regular">> : n \in DOMAIN fonts}

LiveSlots == {s \in AllSlots : SlotData(s).present}

\* Orders in which a hash map with key set S may iterate.
Orders(S) ==
    {o \in [1..Cardinality(S) -> S] : \A i, j \in 1..Cardinality(S) : i # j => o[i] # o[j]}

(***************************************************************************)
(* Initial state: a one-page template has been opened.                     *)
(***************************************************************************)
\* The document right after open() on the object graph g with highest id m.
InitDoc(graphs) ==
    /\ \E g \in graphs :
        /\ objects = g
        /\ max_id = Len(g)
    /\ fonts = EmptyMap
    /\ font_families = EmptyMap
    /\ family_order = << >>
    /\ current_family = NoFamily
    /\ current_weight = "Regular"
    /\ current_style = "Normal"
    /\ current_font_size = DefaultSize
    /\ embedded_fonts = EmptyMap
    /\ page_font_resources = EmptyMap
    /\ next_font_resource = 1
    /\ embedded_images = EmptyMap
    /\ page_image_resources = EmptyMap
    /\ next_image_resource = 1
    /\ font_fallbacks = EmptyMap
    /\ page_content_buffer = EmptyMap
    /\ buffered_text_ops = << >>
    /\ pc = Idle
    /\ last = Result("open", "Ok")
    /\ history = << >>

InitWith(templates) == InitDoc({TemplateObjects(t) : t \in templates})

\* A document opened from a template whose page has a well-formed MediaBox.
Init == InitWith({t \in Templates : t.mediabox = "ok"})

(***************************************************************************)
(* Font registration                                                       *)
(***************************************************************************)
AddFont(name, ttf) ==
    /\ pc = Idle
    /\ IF name \in DOMAIN fonts \/ name \in DOMAIN font_families THEN
          /\ last' = NamedError("add_font", "FontAlreadyExists", name)
          /\ UNCHANGED fontVars
       ELSE IF ~from_ttf_ok(ttf) THEN
          /\ last' = Result("add_font", "FontParseError")
          /\ UNCHANGED fontVars
       ELSE
          /\ fonts' = Put(fonts, name, from_ttf(name, ttf))
          /\ font_families' = Put(font_families, name,
                [regular |-> from_ttf(name, ttf), bold |-> NoFont,
                 italic |-> NoFont, bold_italic |-> NoFont])
          /\ family_order' \in Orders(DOMAIN font_families')
          /\ last' = Result("add_font", "Ok")
    /\ UNCHANGED <<graphVars, drawVars, embedded_fonts, fontResVars, imageVars,
                   font_fallbacks, bufferVars, pc, history>>

\* A name check that finds no name taken.
never_taken(name) == FALSE

\* self.font_families.contains_key(name)
family_taken(name) == name \in DOMAIN font_families

RegisterFontFamily(name, b) ==
    /\ pc = Idle
    /\ IF family_taken(name) THEN
          /\ last' = NamedError("register_font_family", "FontAlreadyExists", name)
          /\ UNCHANGED fontVars
       ELSE IF ~build_ok(b) THEN
          /\ last' = Result("register_font_family", "FontParseError")
          /\ UNCHANGED fontVars
       ELSE
          /\ font_families' = Put(font_families, name, build(b, name))
          /\ family_order' \in Orders(DOMAIN font_families')
          /\ last' = Result("register_font_family", "Ok")
          /\ UNCHANGED fonts
    /\ UNCHANGED <<graphVars, drawVars, embedded_fonts, fontResVars, imageVars,
                   font_fallbacks, bufferVars, pc, history>>

(***************************************************************************)
(* Current drawing state                                                   *)
(***************************************************************************)
set_font(family, size) ==
    /\ pc = Idle
    /\ IF family \notin DOMAIN font_families /\ family \notin DOMAIN fonts THEN
          /\ last' = NamedError("set_font", "FontNotFound", family)
          /\ UNCHANGED <<current_family, current_font_size>>
       ELSE
          /\ current_family' = family
          /\ current_font_size' = size
          /\ last' = Result("set_font", "Ok")
    /\ UNCHANGED <<graphVars, fontVars, current_weight, current_style,
                   embedded_fonts, fontResVars, imageVars, font_fallbacks,
                   bufferVars, pc, history>>

\* set_font at the size a document opens with.
SetFont(family) == set_font(family, DefaultSize)

\* A test that always finds a family selected.
some_family == FALSE

\* self.current_family.is_none()
no_family == current_family = NoFamily

SetFontSize(size) ==
    /\ pc = Idle
    /\ IF no_family THEN
          /\ last' = Result("set_font_size", "FontNotFound")
          /\ UNCHANGED current_font_size
       ELSE
          /\ current_font_size' = size
          /\ last' = Result("set_font_size", "Ok")
    /\ UNCHANGED <<graphVars, fontVars, current_family, current_weight, current_style,
                   embedded_fonts, fontResVars, imageVars, font_fallbacks,
                   bufferVars, pc, history>>

SetFontWeight(weight) ==
    /\ pc = Idle
    /\ IF no_family THEN
          /\ last' = Result("set_font_weight", "FontNotFound")
          /\ UNCHANGED current_weight
       ELSE
          /\ current_weight' = weight
          /\ last' = Result("set_font_weight", "Ok")
    /\ UNCHANGED <<graphVars, fontVars, current_family, current_style,
                   current_font_size, embedded_fonts, fontResVars, imageVars,
                   font_fallbacks, bufferVars, pc, history>>

SetFontStyle(style) ==
    /\ pc = Idle
    /\ IF no_family THEN
          /\ last' = Result("set_font_style", "FontNotFound")
          /\ UNCHANGED current_style
       ELSE
          /\ current_style' = style
          /\ last' = Result("set_font_style", "Ok")
    /\ UNCHANGED <<graphVars, fontVars, current_family, current_weight,
                   current_font_size, embedded_fonts, fontResVars, imageVars,
                   font_fallbacks, bufferVars, pc, history>>

(***************************************************************************)
(* set_font_fallback                                                       *)
(***************************************************************************)
Registered(name) == name \in DOMAIN font_families \/ name \in DOMAIN fonts

\* A store that appends the list to the chain already there.
extend_chain(chains, family, fallbacks) ==
    Put(chains, family,
        (IF family \in DOMAIN chains THEN chains[family] ELSE << >>) \o fallbacks)

\* self.font_fallbacks.insert(family, fallbacks.to_vec())
store_chain(chains, family, fallbacks) == Put(chains, family, fallbacks)

SetFontFallback(family, fallbacks) ==
    /\ pc = Idle
    /\ IF ~Registered(family) THEN
          /\ last' = Result("set_font_fallback", "FontNotFound")
          /\ UNCHANGED font_fallbacks
       ELSE IF \E i \in 1..Len(fallbacks) : ~Registered(fallbacks[i]) THEN
          /\ last' = Result("set_font_fallback", "FontNotFound")
          /\ UNCHANGED font_fallbacks
       ELSE
          /\ font_fallbacks' = store_chain(font_fallbacks, family, fallbacks)
          /\ last' = Result("set_font_fallback", "Ok")
    /\ UNCHANGED <<graphVars, fontVars, drawVars, embedded_fonts, fontResVars,
                   imageVars, bufferVars, pc, history>>

(***************************************************************************)
(* insert_text                                                             *)
(***************************************************************************)
get_current_font_name ==
    IF current_family \in DOMAIN font_families
    THEN get_variant_name(current_family, current_weight, current_style)
    ELSE current_family

\* The fallback walk of segment_text_by_font for one code point; "" = none.
RECURSIVE FindFallback(_, _)
FindFallback(list, c) ==
    IF list = << >> THEN ""
    ELSE LET fb == Head(list) IN
         IF fb \in DOMAIN font_families THEN
             LET v == get_variant(font_families[fb], current_weight, current_style) IN
             IF v.present /\ has_glyph(v, c) THEN v.name
             ELSE FindFallback(Tail(list), c)
         ELSE IF fb \in DOMAIN fonts /\ has_glyph(fonts[fb], c) THEN fb
         ELSE FindFallback(Tail(list), c)

font_for_char(c, family_name, variant_name) ==
    IF get_font_slot(variant_name) # NoSlot THEN
        IF has_glyph(get_font_data(variant_name), c) THEN variant_name
        ELSE LET found == IF family_name \in DOMAIN font_fallbacks
                          THEN FindFallback(font_fallbacks[family_name], c)
                          ELSE ""
             IN IF found # "" THEN found ELSE variant_name
    ELSE variant_name

Segment(text, font_name) == [text |-> text, font_name |-> font_name]

\* The loop of segment_text_by_font from position i, with the finished
\* segments, the current segment and its font.
RECURSIVE SegmentLoop(_, _, _, _, _, _, _)
SegmentLoop(text, i, family_name, variant_name, segments, current_segment, current_font) ==
    IF i > Len(text) THEN
        IF current_segment # << >>
        THEN Append(segments, Segment(current_segment, current_font))
        ELSE segments
    ELSE LET c == text[i]
             f == font_for_char(c, family_name, variant_name) IN
         IF i = 1 \/ f = current_font THEN
            SegmentLoop(text, i + 1, family_name, variant_name, segments,
                        Append(current_segment, c), f)
         ELSE
            SegmentLoop(text, i + 1, family_name, variant_name,
                        IF current_segment # << >>
                        THEN Append(segments, Segment(current_segment, current_font))
                        ELSE segments,
                        <<c>>, f)

\* A segmentation that closes a segment after every code point.
segment_each_char(text, family_name, variant_name) ==
    [i \in 1..Len(text) |->
        Segment(<<text[i]>>, font_for_char(text[i], family_name, variant_name))]

segment_text_by_font(text, family_name, variant_name) ==
    SegmentLoop(text, 1, family_name, variant_name, << >>, << >>, variant_name)

\* A tag lookup that mints a new tag on every use.
mint_font_ref(r, font_name, page) ==
    LET page_resources == IF page \in DOMAIN r.pfr THEN r.pfr[page] ELSE EmptyMap IN
    [pfr |-> Put(r.pfr, page, Put(page_resources, font_name, r.nfr)), nfr |-> r.nfr + 1]

\* get_or_create_font_ref on a resource state r = [pfr, nfr]: the state
\* after the call; the tag is r.pfr[page][font_name].
get_or_create_font_ref(r, font_name, page) ==
    LET page_resources == IF page \in DOMAIN r.pfr THEN r.pfr[page] ELSE EmptyMap IN
    IF font_name \in DOMAIN page_resources
    THEN [pfr |-> Put(r.pfr, page, page_resources), nfr |-> r.nfr]
    ELSE [pfr |-> Put(r.pfr, page, Put(page_resources, font_name, r.nfr)),
          nfr |-> r.nfr + 1]

\* Write descriptor fd back into the slot s of the maps d = [ff, fo].
SetSlot(d, s, fd) ==
    IF s[1] = "family"
    THEN [d EXCEPT !.ff = [@ EXCEPT ![s[2]] = [@ EXCEPT ![s[3]] = fd]]]
    ELSE [d EXCEPT !.fo = [@ EXCEPT ![s[2]] = fd]]

DataIn(d, s) == IF s[1] = "family" THEN d.ff[s[2]][s[3]] ELSE d.fo[s[2]]

TextOp(text, font_name, tag, page, x, y, font_size) ==
    [text |-> text, font_name |-> font_name, font_resource_name |-> tag, page |-> page,
     x |-> x, y |-> y, font_size |-> font_size]

\* The render loop of insert_text over the segments from position i, on the
\* state st = [d, r, ops, x] (x is current_x), at the bottom-origin pdf_y.
RECURSIVE RenderSegments(_, _, _, _, _)
RenderSegments(segments, i, page, pdf_y, st) ==
    IF i > Len(segments) THEN st
    ELSE LET seg == segments[i]
             s == get_font_slot(seg.font_name)
             d1 == SetSlot(st.d, s, add_chars(DataIn(st.d, s), seg.text))
             r1 == get_or_create_font_ref(st.r, seg.font_name, page)
             segment_width == text_width_points(DataIn(d1, s), seg.text, current_font_size)
             op == TextOp(seg.text, seg.font_name, r1.pfr[page][seg.font_name], page,
                          st.x, pdf_y, current_font_size)
         IN RenderSegments(segments, i + 1, page, pdf_y,
                           [d |-> d1, r |-> r1, ops |-> Append(st.ops, op),
                            x |-> st.x + segment_width])

\* The sum of the segment widths, each measured with the font of its name.
RECURSIVE total_width(_, _)
total_width(segments, i) ==
    IF i > Len(segments) THEN 0
    ELSE text_width_points(get_font_data(segments[i].font_name), segments[i].text,
                           current_font_size)
         + total_width(segments, i + 1)

\* A start position that ignores the alignment.
start_x_left(x, align, width) == x

start_x(x, align, width) ==
    IF align = "Left" THEN x
    ELSE IF align = "Center" THEN x - (width \div 2)
    ELSE x - width

(***************************************************************************)
(* Page height                                                             *)
(***************************************************************************)
\* The MediaBox arrays of the templates, by the name the objects carry: A4,
\* a box whose lower edge is not 0, and an array with three entries.
A4Box == <<0, 0, 59528, 84189>>

MediaBoxArray(box) ==
    IF box = "ok" THEN A4Box
    ELSE IF box = "offset" THEN <<0, 1000, 59528, 81000>>
    ELSE <<0, 0, 59528>>

\* A dictionary without MediaBox and CropBox.
NoBox == "none"

BoxOf(o) == IF "mediabox" \in DOMAIN o THEN o.mediabox ELSE NoBox

\* The Parent reference of a dictionary; 0 = no Parent entry.
ParentOf(o) == IF "parent" \in DOMAIN o THEN o.parent ELSE 0

IsDict(o) == o.kind \notin {"stream", "fontfile", "tounicode", "image"}

\* The iterations of the parent walk.
MaxParentWalk == 10

\* get_inherited_media_box from current_id with `left` iterations to go.
RECURSIVE get_inherited_media_box(_, _, _)
get_inherited_media_box(g, current_id, left) ==
    IF left = 0 THEN [ok |-> TRUE, box |-> A4Box]
    ELSE IF current_id \notin DOMAIN g \/ ~IsDict(g[current_id])
         THEN [ok |-> FALSE, box |-> << >>]
    ELSE IF BoxOf(g[current_id]) # NoBox
         THEN [ok |-> TRUE, box |-> MediaBoxArray(BoxOf(g[current_id]))]
    ELSE IF ParentOf(g[current_id]) # 0
         THEN get_inherited_media_box(g, ParentOf(g[current_id]), left - 1)
    ELSE [ok |-> TRUE, box |-> A4Box]

\* A height that is the upper edge alone.
height_from_top_edge(media_box_array) ==
    IF Len(media_box_array) >= 4
    THEN [ok |-> TRUE, height |-> media_box_array[4]]
    ELSE [ok |-> FALSE, height |-> 0]

extract_height_from_media_box(media_box_array) ==
    IF Len(media_box_array) >= 4
    THEN [ok |-> TRUE, height |-> media_box_array[4] - media_box_array[2]]
    ELSE [ok |-> FALSE, height |-> 0]

get_page_height(g, page) ==
    LET media_box == get_inherited_media_box(g, g[g[CatalogId].pages].kids[page],
                                             MaxParentWalk)
    IN IF media_box.ok THEN extract_height_from_media_box(media_box.box)
       ELSE [ok |-> FALSE, height |-> 0]

PageHeightOk(page) == get_page_height(objects, page).ok

\* An emptiness test that lets every text through.
never_empty(text) == FALSE

\* text.is_empty()
is_empty(text) == text = << >>

insert_text(text, page, x, y, align) ==
    /\ pc = Idle
    /\ Budget
    /\ UNCHANGED <<graphVars, family_order, drawVars, embedded_fonts, imageVars,
                   font_fallbacks, page_content_buffer, pc>>
    /\ LET family_name == current_family
           font_name == get_current_font_name
           segments == IF family_name \in DOMAIN font_fallbacks
                       THEN segment_text_by_font(text, family_name, font_name)
                       ELSE <<Segment(text, font_name)>>
           Return(result) == /\ last' = result
                             /\ UNCHANGED <<fonts, font_families, fontResVars,
                                            buffered_text_ops, history>>
           Fail(res) == Return(Result("insert_text", res))
       IN
       IF invalid_page(page, page_count)
       THEN Return(InvalidPage("insert_text", page, page_count))
       ELSE IF is_empty(text) THEN Fail("Ok")
       ELSE IF current_family = NoFamily THEN Fail("FontNotFound")
       ELSE IF \E i \in 1..Len(segments) : get_font_slot(segments[i].font_name) = NoSlot
            THEN Fail("FontNotFound")
       ELSE IF ~PageHeightOk(page) THEN Fail("ParseError")
       ELSE LET pdf_y == get_page_height(objects, page).height - y
                st == RenderSegments(segments, 1, page, pdf_y,
                        [d |-> [ff |-> font_families, fo |-> fonts],
                         r |-> [pfr |-> page_font_resources, nfr |-> next_font_resource],
                         ops |-> buffered_text_ops,
                         x |-> start_x(x, align, total_width(segments, 1))])
            IN /\ font_families' = st.d.ff
               /\ fonts' = st.d.fo
               /\ page_font_resources' = st.r.pfr
               /\ next_font_resource' = st.r.nfr
               /\ buffered_text_ops' = st.ops
               /\ history' = Append(history, "insert_text")
               /\ last' = Result("insert_text", "Ok")

\* insert_text at the top left corner of the page.
InsertText(text, page) == insert_text(text, page, 0, 0, "Left")

(***************************************************************************)
(* insert_image                                                            *)
(***************************************************************************)
\* Image scaling modes.
Modes == {"Stretch", "FitWidth", "FitHeight", "FitBox"}

\* The first eight bytes of a PNG file and the type of its first chunk.
PngSignature == <<137, 80, 78, 71, 13, 10, 26, 10>>

IHDR == <<73, 72, 68, 82>>

\* A PNG header of 1 x 2 pixels: signature, IHDR chunk, start of IDAT.
PngHeader ==
    PngSignature \o <<0, 0, 0, 13>> \o IHDR \o <<0, 0, 0, 1, 0, 0, 0, 2, 8, 2, 0, 0, 0>>
        \o <<1, 2, 3, 4>> \o <<0, 0, 0, 12, 73, 68, 65, 84>>

\* The bytes behind the image names: "img" is a JPEG of 2 x 1 pixels whose
\* frame header follows the start marker, "png" a PNG of 1 x 2 pixels,
\* "pngff" the same PNG whose compressed data holds the bytes FF C0, "rawff"
\* bytes with FF C0 that start with neither signature, and BadImage bytes
\* with no FF at all.
Bytes(data) ==
    CASE data = "img" -> <<255, 216, 255, 192, 0, 11, 8, 0, 1, 0, 2, 3, 0>>
      [] data = "png" -> PngHeader \o <<120, 156, 99, 96, 0, 2, 0, 0, 5, 0, 1, 9>>
      [] data = "pngff" -> PngHeader \o <<120, 156, 255, 192, 0, 17, 8, 0, 3, 0, 4, 3, 0, 0>>
      [] data = "rawff" -> <<0, 0, 255, 192, 0, 11, 8, 0, 1, 0, 2, 3, 0>>
      [] OTHER -> <<0, 1, 2, 3, 4, 5, 6, 7, 8, 9, 10, 11, 12>>

\* data[i] with the index counted from 0.
ByteAt(data, i) == data[i + 1]

NoImageInfo == [ok |-> FALSE, width |-> 0, height |-> 0, filter |-> "none"]

\* get_jpeg_info from offset i: the first FF byte followed by a frame marker
\* gives the dimensions; any other FF byte is skipped as a segment.
RECURSIVE get_jpeg_info(_, _)
get_jpeg_info(data, i) ==
    IF ~(i + 10 < Len(data)) THEN NoImageInfo
    ELSE IF ByteAt(data, i) # 255 THEN get_jpeg_info(data, i + 1)
    ELSE IF ByteAt(data, i + 1) \in (192..207) \ {196, 200, 204}
         THEN [ok |-> TRUE,
               height |-> ByteAt(data, i + 5) * 256 + ByteAt(data, i + 6),
               width |-> ByteAt(data, i + 7) * 256 + ByteAt(data, i + 8),
               filter |-> "DCTDecode"]
    ELSE IF i + 4 < Len(data)
         THEN LET length == ByteAt(data, i + 2) * 256 + ByteAt(data, i + 3)
              IN IF length < 2 THEN NoImageInfo
                 ELSE get_jpeg_info(data, i + 2 + length)
    ELSE NoImageInfo

\* ImageXObject::from_jpeg: the scan starts behind the first two bytes.
from_jpeg(data) == get_jpeg_info(data, 2)

\* ImageXObject::from_png: the decoder takes data with the PNG signature and
\* reads the dimensions from the IHDR chunk (the low bytes suffice here).
from_png(data) ==
    IF Len(data) >= 24 /\ SubSeq(data, 1, 8) = PngSignature /\ SubSeq(data, 13, 16) = IHDR
    THEN [ok |-> TRUE, width |-> ByteAt(data, 18) * 256 + ByteAt(data, 19),
          height |-> ByteAt(data, 22) * 256 + ByteAt(data, 23),
          filter |-> "FlateDecode"]
    ELSE NoImageInfo

\* ImageXObject::from_jpeg(data).or_else(|_| ImageXObject::from_png(data))
ImageXObject(data) ==
    IF from_jpeg(Bytes(data)).ok THEN from_jpeg(Bytes(data)) ELSE from_png(Bytes(data))

\* The image stream: the dimensions and the filter the decoder found.
ImageObj(data) ==
    [kind |-> "image", data |-> data, width |-> ImageXObject(data).width,
     height |-> ImageXObject(data).height, filter |-> ImageXObject(data).filter]

\* calculate_scaled_dimensions: <<actual_width, actual_height>>.
calculate_scaled_dimensions(original_width, original_height, target_width, target_height, mode) ==
    IF mode = "Stretch" THEN <<target_width, target_height>>
    ELSE IF mode = "FitWidth"
         THEN <<target_width, (target_width * original_height) \div original_width>>
    ELSE IF mode = "FitHeight"
         THEN <<(target_height * original_width) \div original_height, target_height>>
    ELSE IF target_width * original_height <= target_height * original_width
         THEN <<target_width, (target_width * original_height) \div original_width>>
    ELSE <<(target_height * original_width) \div original_height, target_height>>

\* generate_image_operators
ImageBlock(tag, x, y, width, height) ==
    [kind |-> "image", tag |-> tag, x |-> x, y |-> y,
     width |-> width, height |-> height]

\* A buffer that appends the block to the accumulator of every page.
buffer_on_every_page(b, page, block) ==
    [q \in DOMAIN b \cup {page} |-> (IF q \in DOMAIN b THEN b[q] ELSE << >>) \o <<block>>]

\* buffer_content on a buffer map b.
buffer_content(b, page, block) ==
    Put(b, page, (IF page \in DOMAIN b THEN b[page] ELSE << >>) \o <<block>>)

\* add_image_to_page_resources on graph g.
add_image_to_page_resources(g, page, tag, object_id) ==
    LET page_dict == g[get_pages[page]]
        resources == resources_dict(page_dict)
        new_xobject_dict == Put(resources.xobject, tag, object_id)
    IN [g EXCEPT ![get_pages[page]] =
            set_resources(page_dict, [resources EXCEPT !.xobject = new_xobject_dict])]

\* An image lookup that mints a new tag on every use.
mint_image_ref(st, data, page) ==
    LET fresh == data \notin DOMAIN st.ei
        g1 == IF fresh THEN add_object(st.g, st.m, ImageObj(data)) ELSE st.g
        m1 == IF fresh THEN st.m + 1 ELSE st.m
        ei1 == IF fresh THEN Put(st.ei, data, m1) ELSE st.ei
        page_resources == IF page \in DOMAIN st.pir THEN st.pir[page] ELSE EmptyMap
    IN [g |-> add_image_to_page_resources(g1, page, st.nir, ei1[data]),
        m |-> m1, ei |-> ei1,
        pir |-> Put(st.pir, page, Put(page_resources, st.nir, ei1[data])),
        nir |-> st.nir + 1, tag |-> st.nir]

\* get_or_create_image_ref on st = [g, m, ei, pir, nir] for bytes that
\* decode: the state after the call and the tag it returns.
get_or_create_image_ref(st, data, page) ==
    LET fresh == data \notin DOMAIN st.ei
        g1 == IF fresh THEN add_object(st.g, st.m, ImageObj(data)) ELSE st.g
        m1 == IF fresh THEN st.m + 1 ELSE st.m
        ei1 == IF fresh THEN Put(st.ei, data, m1) ELSE st.ei
        object_id == ei1[data]
        page_resources == IF page \in DOMAIN st.pir THEN st.pir[page] ELSE EmptyMap
        known == {t \in DOMAIN page_resources : page_resources[t] = object_id}
    IN IF known # {}
       THEN [g |-> g1, m |-> m1, ei |-> ei1,
             pir |-> Put(st.pir, page, page_resources), nir |-> st.nir,
             tag |-> CHOOSE t \in known : TRUE]
       ELSE [g |-> add_image_to_page_resources(g1, page, st.nir, object_id),
             m |-> m1, ei |-> ei1,
             pir |-> Put(st.pir, page, Put(page_resources, st.nir, object_id)),
             nir |-> st.nir + 1, tag |-> st.nir]

insert_image_scaled(data, page, x, y, width, height, mode) ==
    /\ pc = Idle
    /\ Budget
    /\ UNCHANGED <<fontVars, drawVars, embedded_fonts, fontResVars, font_fallbacks,
                   buffered_text_ops, pc>>
    /\ IF invalid_page(page, page_count) THEN
          /\ last' = InvalidPage("insert_image", page, page_count)
          /\ UNCHANGED <<graphVars, imageVars, page_content_buffer, history>>
       ELSE IF data \notin DOMAIN embedded_images /\ ~ImageXObject(data).ok THEN
          /\ last' = Result("insert_image", "ImageError")
          /\ UNCHANGED <<graphVars, imageVars, page_content_buffer, history>>
       ELSE
          LET r == get_or_create_image_ref(
                       [g |-> objects, m |-> max_id, ei |-> embedded_images,
                        pir |-> page_image_resources, nir |-> next_image_resource],
                       data, page)
          IN
          /\ objects' = r.g
          /\ max_id' = r.m
          /\ embedded_images' = r.ei
          /\ page_image_resources' = r.pir
          /\ next_image_resource' = r.nir
          /\ IF ~get_page_height(r.g, page).ok THEN
                /\ last' = Result("insert_image", "ParseError")
                /\ UNCHANGED <<page_content_buffer, history>>
             ELSE
                LET actual == calculate_scaled_dimensions(
                                  r.g[r.ei[data]].width, r.g[r.ei[data]].height,
                                  width, height, mode)
                    pdf_y == get_page_height(r.g, page).height - y - actual[2]
                IN
                /\ page_content_buffer' =
                      buffer_content(page_content_buffer, page,
                                     ImageBlock(r.tag, x, pdf_y, actual[1], actual[2]))
                /\ history' = Append(history, "insert_image")
                /\ last' = Result("insert_image", "Ok")

insert_image(data, page, x, y, width, height) ==
    insert_image_scaled(data, page, x, y, width, height, "Stretch")

\* insert_image in a 2 x 2 point box at the top left corner of the page.
InsertImage(data, page) == insert_image(data, page, 0, 0, 200, 200)

(***************************************************************************)
(* add_blank_page, duplicate_page                                          *)
(***************************************************************************)
\* A root Pages node that takes the new page as its first kid.
push_kid_first(g, new_page_id) ==
    [g EXCEPT ![g[CatalogId].pages] =
        [@ EXCEPT !.kids = <<new_page_id>> \o @, !.count = @ + 1]]

\* The root Pages node (catalog /Pages) with one more kid.
push_kid(g, new_page_id) ==
    [g EXCEPT ![g[CatalogId].pages] =
        [@ EXCEPT !.kids = Append(@, new_page_id), !.count = @ + 1]]

AddBlankPage ==
    /\ pc = Idle
    /\ Budget
    /\ LET g1 == add_object(objects, max_id, StreamObj(<< >>))
           contents_id == max_id + 1
           \* the new page dictionary has no Parent entry (0)
           g2 == add_object(g1, max_id + 1, PageObj(0, <<"ref", contents_id>>, "ok"))
       IN /\ objects' = push_kid(g2, max_id + 2)
          /\ max_id' = max_id + 2
    /\ last' = PageResult("add_blank_page", page_count + 1)
    /\ history' = Append(history, "add_blank_page")
    /\ UNCHANGED <<fontVars, drawVars, embedded_fonts, fontResVars, imageVars,
                   font_fallbacks, bufferVars, pc>>

\* The array branch of duplicate_page: copy the streams the array refers to.
RECURSIVE CopyStreams(_, _, _, _)
CopyStreams(arr, i, g, m) ==
    IF i > Len(arr) THEN [g |-> g, m |-> m, arr |-> << >>]
    ELSE IF g[arr[i]].kind = "stream" THEN
        LET rest == CopyStreams(arr, i + 1, add_object(g, m, StreamObj(g[arr[i]].content)), m + 1)
        IN [rest EXCEPT !.arr = <<m + 1>> \o @]
    ELSE CopyStreams(arr, i + 1, g, m)

\* A duplication that leaves the tag maps as they are.
mirror_nothing(m, page, new_page) == m

\* The source page's tags stored under the new page number.
mirror_resources(m, page, new_page) ==
    IF page \in DOMAIN m THEN Put(m, new_page, m[page]) ELSE m

DuplicatePage(page) ==
    /\ pc = Idle
    /\ UNCHANGED <<fontVars, drawVars, embedded_fonts, next_font_resource,
                   embedded_images, next_image_resource, font_fallbacks,
                   bufferVars, pc>>
    /\ IF invalid_page(page, page_count) THEN
          /\ last' = InvalidPage("duplicate_page", page, page_count)
          /\ UNCHANGED <<graphVars, page_font_resources, page_image_resources, history>>
       ELSE
          /\ Budget
          /\ LET source == objects[get_pages[page]]
                 copied == IF source.contents[1] = "array"
                           THEN CopyStreams(source.contents[2], 1, objects, max_id)
                           ELSE [g |-> objects, m |-> max_id, arr |-> << >>]
                 new_page_dict == IF source.contents[1] = "array"
                                  THEN [source EXCEPT !.contents = <<"array", copied.arr>>]
                                  ELSE source
                 g2 == add_object(copied.g, copied.m, new_page_dict)
             IN /\ objects' = push_kid(g2, copied.m + 1)
                /\ max_id' = copied.m + 1
          /\ page_font_resources' =
                mirror_resources(page_font_resources, page, page_count + 1)
          /\ page_image_resources' =
                mirror_resources(page_image_resources, page, page_count + 1)
          /\ last' = PageResult("duplicate_page", page_count + 1)
          /\ history' = Append(history, "duplicate_page")

(***************************************************************************)
(* save / to_bytes: the phases of the pipeline, one step each.  The two     *)
(* entry points run the same phases and differ only in where the final     *)
(* serialization writes; both are the operation "save" here.               *)
(***************************************************************************)
At(phase) == pc = phase

Goto(phase) == pc' = phase

\* A collection that takes every registered descriptor, used or not.
AllNames == {SlotData(s).name : s \in LiveSlots}

\* The names collected by subset_fonts and embed_fonts: every descriptor of a
\* family or of the legacy map with a non-empty used set.
UsedNames == {SlotData(s).name : s \in {t \in LiveSlots : SlotData(t).used_chars # {}}}

\* create_subset: the subset and glyph-id remap cover the used code points;
\* nothing is built for an empty used set.
create_subset(fd) ==
    IF fd.used_chars = {} THEN fd
    ELSE [fd EXCEPT !.has_subset = TRUE, !.subset_chars = fd.used_chars]

\* The new glyph id of a code point in the subset: .notdef is 0, the covered
\* glyphs follow in code-point order.
remapped_gid(fd, c) ==
    LET kept == fd.subset_chars \cap Glyphs(fd.ttf) IN
    IF c \in kept THEN 1 + Cardinality({d \in kept : d < c}) ELSE 0

encode_text_hex_remapped(fd, text) ==
    [i \in 1..Len(text) |->
        IF fd.has_subset THEN remapped_gid(fd, text[i]) ELSE glyph_id(fd.ttf, text[i])]

\* 1. subset_fonts: create_subset on the descriptor get_font_data_mut returns
\* for each collected name.
subset_fonts(d) ==
    LET targets == {get_font_slot(n) : n \in UsedNames} IN
    [ff |-> [f \in DOMAIN d.ff |->
                [v \in VariantKeys |->
                    IF <<"family", f, v>> \in targets
                    THEN create_subset(d.ff[f][v]) ELSE d.ff[f][v]]],
     fo |-> [n \in DOMAIN d.fo |->
                IF <<"legacy", n, "regular">> \in targets
                THEN create_subset(d.fo[n]) ELSE d.fo[n]]]

SaveSubset ==
    /\ pc = Idle
    /\ Budget
    /\ LET d == subset_fonts([ff |-> font_families, fo |-> fonts])
       IN /\ font_families' = d.ff
          /\ fonts' = d.fo
    /\ Goto("encode")
    /\ UNCHANGED <<graphVars, family_order, drawVars, embedded_fonts, fontResVars,
                   imageVars, font_fallbacks, bufferVars, last, history>>

\* TextRenderContext
TextRenderContext(font_name, font_size, width) ==
    [font_name |-> font_name, font_size |-> font_size, text_width |-> width]

\* generate_text_operators: the operators in the order they are pushed, the
\* operands of Tf (tag, font_size), of Td (x, y) and of Tj (hex).
generate_text_operators(text_hex, x, y, align, ctx) ==
    LET x_offset == IF align = "Left" THEN 0
                    ELSE IF align = "Center" THEN 0 - (ctx.text_width \div 2)
                    ELSE 0 - ctx.text_width
        final_x == x + x_offset
    IN [kind |-> "text", operators |-> <<"BT", "rg", "Tf", "Td", "Tj", "ET">>,
        tag |-> ctx.font_name, font_size |-> ctx.font_size,
        x |-> final_x, y |-> y, hex |-> text_hex]

\* The operator block of one buffered text op, given the alignment handed to
\* generate_text_operators; text is kept beside the hex string to tell which
\* insert produced the block.
EncodeOp(op, align) ==
    LET font_data == get_font_data(op.font_name)
        b == generate_text_operators(
                 encode_text_hex_remapped(font_data, op.text), op.x, op.y, align,
                 TextRenderContext(op.font_resource_name, op.font_size,
                                   text_width_points(font_data, op.text, op.font_size)))
    IN [kind |-> b.kind, operators |-> b.operators, tag |-> b.tag,
        font_size |-> b.font_size, x |-> b.x, y |-> b.y, hex |-> b.hex,
        text |-> op.text]

\* A block that is aligned to the right once more.
TextBlockShifted(op) == EncodeOp(op, "Right")

TextBlock(op) == EncodeOp(op, "Left")

\* An encoding loop that emits the newest op first.
RECURSIVE encode_newest_first(_, _, _)
encode_newest_first(text_ops, i, b) ==
    IF i > Len(text_ops) THEN b
    ELSE buffer_content(encode_newest_first(text_ops, i + 1, b),
                        text_ops[i].page, TextBlock(text_ops[i]))

\* 2. encode_buffered_text: the loop over the drained ops from position i.
RECURSIVE encode_buffered_text(_, _, _)
encode_buffered_text(text_ops, i, b) ==
    IF i > Len(text_ops) THEN b
    ELSE encode_buffered_text(text_ops, i + 1,
                              buffer_content(b, text_ops[i].page, TextBlock(text_ops[i])))

SaveEncode ==
    /\ At("encode")
    /\ page_content_buffer' = encode_buffered_text(buffered_text_ops, 1, page_content_buffer)
    /\ buffered_text_ops' = << >>
    /\ Goto("flush")
    /\ UNCHANGED <<graphVars, fontVars, drawVars, embedded_fonts, fontResVars,
                   imageVars, font_fallbacks, last, history>>

\* The payload of one Contents element of an array.
StreamContent(g, id) == IF g[id].kind = "stream" THEN g[id].content ELSE << >>

RECURSIVE ConcatStreams(_, _, _)
ConcatStreams(g, arr, i) ==
    IF i > Len(arr) THEN << >>
    ELSE StreamContent(g, arr[i]) \o ConcatStreams(g, arr, i + 1)

\* The existing content of a page dictionary, by the form of its Contents.
existing_content(g, page_dict) ==
    IF page_dict.contents[1] = "ref" THEN StreamContent(g, page_dict.contents[2])
    ELSE IF page_dict.contents[1] = "array" THEN ConcatStreams(g, page_dict.contents[2], 1)
    ELSE << >>

\* A flush that appends one stream object per buffered block.
RECURSIVE append_each_block(_, _, _, _)
append_each_block(g, m, page, content) ==
    IF content = << >> THEN [g |-> g, m |-> m]
    ELSE LET page_id == get_pages[page]
             new_content == existing_content(g, g[page_id]) \o <<Head(content)>>
             g1 == add_object(g, m, StreamObj(new_content))
         IN append_each_block([g1 EXCEPT ![page_id].contents = <<"ref", m + 1>>],
                              m + 1, page, Tail(content))

\* append_to_content_stream on graph g with highest id m.
append_to_content_stream(g, m, page, content) ==
    LET page_id == get_pages[page]
        new_content == existing_content(g, g[page_id]) \o content
        g1 == add_object(g, m, StreamObj(new_content))
    IN [g |-> [g1 EXCEPT ![page_id].contents = <<"ref", m + 1>>], m |-> m + 1]

\* 3. flush_content_buffers: the drained buffers, taken page by page.
RECURSIVE flush_content_buffers(_, _, _, _)
flush_content_buffers(b, todo, g, m) ==
    IF todo = {} THEN [g |-> g, m |-> m]
    ELSE LET page == CHOOSE p \in todo : \A q \in todo : p <= q IN
         IF b[page] # << >>
         THEN LET r == append_to_content_stream(g, m, page, b[page])
              IN flush_content_buffers(b, todo \ {page}, r.g, r.m)
         ELSE flush_content_buffers(b, todo \ {page}, g, m)

\* A drain that leaves the accumulators filled.
keep_buffers(b) == b

\* self.page_content_buffer.drain(): what the map holds afterwards.
drain_buffers(b) == EmptyMap

SaveFlush ==
    /\ At("flush")
    /\ LET r == flush_content_buffers(page_content_buffer, DOMAIN page_content_buffer,
                                      objects, max_id)
       IN /\ objects' = r.g
          /\ max_id' = r.m
    /\ page_content_buffer' = drain_buffers(page_content_buffer)
    /\ Goto("embed")
    /\ UNCHANGED <<fontVars, drawVars, embedded_fonts, fontResVars, imageVars,
                   font_fallbacks, buffered_text_ops, last, history>>

\* The entries of one bfchar block.
BfcharLimit == 100

\* char_list.sort_by_key(|c| *c as u32): each code point at the position
\* given by the number of smaller ones.
sort_by_key(chars) ==
    LET rank == [c \in chars |-> Cardinality({d \in chars : d < c})]
    IN [i \in 1..Cardinality(chars) |-> CHOOSE c \in chars : rank[c] = i - 1]

\* A chunking that puts the whole list into one chunk.
one_chunk(list, n) == <<list>>

\* char_list.chunks(n)
chunks(list, n) ==
    [k \in 1..((Len(list) + n - 1) \div n) |->
        SubSeq(list, (k - 1) * n + 1, IF k * n < Len(list) THEN k * n ELSE Len(list))]

\* generate_tounicode_cmap: the bfchar blocks, each with its declared count
\* and its <gid> <unicode> entries.
generate_tounicode_cmap(fd) ==
    LET char_list == sort_by_key(fd.used_chars) IN
    IF char_list = << >> THEN << >>
    ELSE LET cs == chunks(char_list, BfcharLimit) IN
         [k \in DOMAIN cs |->
             [count |-> Len(cs[k]),
              entries |-> [j \in DOMAIN cs[k] |-> <<glyph_id(fd.ttf, cs[k][j]), cs[k][j]>>]]]

\* to_pdf_objects on one registered descriptor, as far as the ToUnicode
\* stream goes.
GenerateToUnicode ==
    /\ pc = Idle
    /\ \E s \in LiveSlots :
          last' = [op |-> "generate_tounicode_cmap", res |-> "Ok",
                   used |-> SlotData(s).used_chars,
                   cmap |-> generate_tounicode_cmap(SlotData(s))]
    /\ UNCHANGED <<graphVars, fontVars, drawVars, embedded_fonts, fontResVars,
                   imageVars, font_fallbacks, bufferVars, pc, history>>

\* embed_font_object on st = [g, m, ef]: the five objects of one font.
embed_font_object(st, font_name) ==
    LET fd == get_font_data(font_name)
        m == st.m
        g1 == add_object(st.g, m, [kind |-> "fontfile", font |-> font_name, ttf |-> fd.ttf])
        g2 == add_object(g1, m + 1, [kind |-> "fontdescriptor", fontfile |-> m + 1])
        g3 == add_object(g2, m + 2,
                         [kind |-> "cidfont", descriptor |-> m + 2,
                          w |-> {glyph_id(fd.ttf, c) : c \in fd.used_chars}])
        g4 == add_object(g3, m + 3, [kind |-> "tounicode", chars |-> fd.used_chars])
        g5 == add_object(g4, m + 4,
                         [kind |-> "type0", font |-> font_name, descendant |-> m + 3,
                          tounicode |-> m + 4])
    IN [g |-> g5, m |-> m + 5, ef |-> Put(st.ef, font_name, m + 5)]

\* The loop of embed_fonts over the collected names (the order in which the
\* names are taken only decides which object ids the fonts get).
RECURSIVE embed_each(_, _)
embed_each(names, st) ==
    IF names = {} THEN st
    ELSE LET n == CHOOSE x \in names : TRUE IN
         embed_each(names \ {n}, embed_font_object(st, n))

\* 4. embed_fonts up to the call of finalize_page_font_resources.
SaveEmbed ==
    /\ At("embed")
    /\ LET st == embed_each(UsedNames, [g |-> objects, m |-> max_id, ef |-> EmptyMap])
       IN /\ objects' = st.g
          /\ max_id' = st.m
          /\ embedded_fonts' = st.ef
    /\ Goto("attach")
    /\ UNCHANGED <<fontVars, drawVars, fontResVars, imageVars, font_fallbacks,
                   bufferVars, last, history>>

\* An attachment that leaves a tag the Font dictionary already binds.
add_missing_fonts_to_page_resources(g, page, page_fonts) ==
    [g EXCEPT ![get_pages[page]].font =
        [t \in DOMAIN @ \cup {page_fonts[n] : n \in DOMAIN page_fonts} |->
            IF t \in DOMAIN @ THEN @[t]
            ELSE embedded_fonts[CHOOSE n \in DOMAIN page_fonts : page_fonts[n] = t]]]

\* add_fonts_to_page_resources on graph g.
add_fonts_to_page_resources(g, page, page_fonts) ==
    LET page_dict == g[get_pages[page]]
        resources == resources_dict(page_dict)
        font_dict == resources.font
        new_font_dict ==
            [t \in DOMAIN font_dict \cup {page_fonts[n] : n \in DOMAIN page_fonts} |->
                IF \E n \in DOMAIN page_fonts : page_fonts[n] = t
                THEN embedded_fonts[CHOOSE n \in DOMAIN page_fonts : page_fonts[n] = t]
                ELSE font_dict[t]]
    IN [g EXCEPT ![get_pages[page]] =
            set_resources(page_dict, [resources EXCEPT !.font = new_font_dict])]

RECURSIVE finalize_page_font_resources(_, _)
finalize_page_font_resources(todo, g) ==
    IF todo = {} THEN g
    ELSE LET page == CHOOSE p \in todo : TRUE IN
         finalize_page_font_resources(todo \ {page},
            IF DOMAIN page_font_resources[page] # {}
            THEN add_fonts_to_page_resources(g, page, page_font_resources[page])
            ELSE g)

\* The answer of add_fonts_to_page_resources for one page: the page lookup
\* comes first, then the lookup of every font name in embedded_fonts; both
\* come before the page dictionary is replaced.
add_fonts_result(page) ==
    IF page \notin DOMAIN get_pages THEN "InvalidPage"
    ELSE IF \E n \in DOMAIN page_font_resources[page] : n \notin DOMAIN embedded_fonts
         THEN "FontNotFound"
    ELSE "Ok"

\* 5. finalize_page_font_resources.  The pages are visited in the order of
\* the hash map; the first page that fails ends the save with its error,
\* the pages visited before it are attached.
SaveAttach ==
    /\ At("attach")
    /\ LET todo == {p \in DOMAIN page_font_resources :
                        DOMAIN page_font_resources[p] # {}}
           failing == {p \in todo : add_fonts_result(p) # "Ok"}
       IN IF failing = {}
          THEN /\ objects' = finalize_page_font_resources(DOMAIN page_font_resources,
                                                          objects)
               /\ Goto("serialize")
               /\ UNCHANGED <<last, history>>
          ELSE \E page \in failing, done \in SUBSET (todo \ failing) :
                  /\ objects' = finalize_page_font_resources(done, objects)
                  /\ pc' = Idle
                  /\ last' = Result("save", add_fonts_result(page))
                  /\ history' = Append(history, "save")
    /\ UNCHANGED <<max_id, fontVars, drawVars, embedded_fonts, fontResVars, imageVars,
                   font_fallbacks, bufferVars>>

\* 6. inner.save / inner.save_to: every object of the graph is written.
SaveSerialize ==
    /\ At("serialize")
    /\ pc' = Idle
    /\ last' = Result("save", "Ok")
    /\ history' = Append(history, "save")
    /\ UNCHANGED <<graphVars, fontVars, drawVars, embedded_fonts, fontResVars,
                   imageVars, font_fallbacks, bufferVars>>

(***************************************************************************)
(* The document engine: one family name, registered through either API.    *)
(***************************************************************************)
Next ==
    \/ AddFont("a", "full")
    \/ SetFont("a")
    \/ \E text \in Texts, page \in Pages : InsertText(text, page)
    \/ \E data \in Images, page \in Pages : InsertImage(data, page)
    \/ AddBlankPage
    \/ \E page \in Pages : DuplicatePage(page)
    \/ SaveSubset
    \/ SaveEncode
    \/ SaveFlush
    \/ SaveEmbed
    \/ SaveAttach
    \/ SaveSerialize

Spec == Init /\ [][Next]_vars

(***************************************************************************)
(* Font registration and variant resolution: two names through both APIs,  *)
(* every builder, fallback chains and text inserts on the one-page         *)
(* template.                                                               *)
(***************************************************************************)
InitFonts == InitWith({t \in Templates : t.streams = 1 /\ t.mediabox = "ok"})

NextFonts ==
    \/ \E name \in FontNames, ttf \in TTFs : AddFont(name, ttf)
    \/ \E name \in FontNames, b \in Builders : RegisterFontFamily(name, b)
    \/ \E family \in FontNames : SetFont(family)
    \/ \E weight \in Weights : SetFontWeight(weight)
    \/ \E style \in Styles : SetFontStyle(style)
    \/ \E fb \in FallbackInputs : SetFontFallback(fb[1], fb[2])
    \/ /\ inserts < MaxFontInserts
       /\ \E text \in Texts, page \in 0..1 : InsertText(text, page)

SpecFonts == InitFonts /\ [][NextFonts]_vars

(***************************************************************************)
(* The save pipeline over a legacy font and a family registered in either  *)
(* order.                                                                  *)
(***************************************************************************)
NextNames ==
    \/ AddFont("a-bold", "full")
    \/ RegisterFontFamily("a", Builder("full", "part", Absent, Absent))
    \/ \E family \in FontNames : SetFont(family)
    \/ \E weight \in Weights : SetFontWeight(weight)
    \/ /\ inserts < MaxFontInserts
       /\ \E text \in Texts : InsertText(text, 1)
    \/ SaveSubset
    \/ SaveEncode
    \/ SaveFlush
    \/ SaveEmbed
    \/ SaveAttach
    \/ SaveSerialize

\* A one-stream template, its MediaBox well-formed or too short.
InitNames == InitWith({t \in Templates : t.streams = 1})

SpecNames == InitNames /\ [][NextNames]_vars

(***************************************************************************)
(* Pages and their resources: two fonts, two images, inserts on the first  *)
(* two pages, page duplication and save.                                   *)
(***************************************************************************)
PageImages == {"img", "png"}

NextPages ==
    \/ /\ history = << >>
       /\ \E name \in FontNames : AddFont(name, "full")
    \/ \E family \in FontNames : SetFont(family)
    \/ \E page \in 1..2 : InsertText(<<65>>, page)
    \/ \E data \in PageImages, page \in 1..2 : InsertImage(data, page)
    \/ \E page \in 1..2 : DuplicatePage(page)
    \/ SaveSubset
    \/ SaveEncode
    \/ SaveFlush
    \/ SaveEmbed
    \/ SaveAttach
    \/ SaveSerialize

SpecPages == InitFonts /\ [][NextPages]_vars

(***************************************************************************)
(* Failing inserts: one font, every text and image, valid and invalid      *)
(* pages, on a template whose MediaBox is well-formed or too short.        *)
(***************************************************************************)
ErrorPages == 0..2

NextErrors ==
    \/ AddFont("a", "full")
    \/ SetFont("a")
    \/ \E text \in Texts, page \in ErrorPages : InsertText(text, page)
    \/ \E data \in Images, page \in ErrorPages : InsertImage(data, page)
    \/ \E page \in ErrorPages : DuplicatePage(page)
    \/ AddBlankPage

SpecErrors == InitNames /\ [][NextErrors]_vars

(***************************************************************************)
(* Segmentation: faces with full and partial glyph coverage under both     *)
(* names, fallback chains between them, and texts that mix code points     *)
(* with a glyph in every face, in one face and in none.                    *)
(***************************************************************************)
MaxLen == 3

SegChars == {65, 66, 67}

RECURSIVE TextsUpTo(_)
TextsUpTo(n) ==
    IF n = 0 THEN {<< >>}
    ELSE LET shorter == TextsUpTo(n - 1)
         IN shorter \cup {Append(t, c) : t \in shorter, c \in SegChars}

SegTexts == TextsUpTo(MaxLen) \ {<< >>}

SegFallbacks == {<<"a", <<"a-bold">>>>, <<"a-bold", <<"a">>>>, <<"a", <<"a", "a-bold">>>>}

NextSegments ==
    \/ \E name \in FontNames, ttf \in {"part", "full"} : AddFont(name, ttf)
    \/ \E name \in FontNames : RegisterFontFamily(name, Builder("part", "full", Absent, Absent))
    \/ \E family \in FontNames : SetFont(family)
    \/ \E weight \in Weights : SetFontWeight(weight)
    \/ \E fb \in SegFallbacks : SetFontFallback(fb[1], fb[2])
    \/ /\ history = << >>
       /\ \E text \in {<<66, 65, 66>>, <<65, 67>>} : InsertText(text, 1)

SpecSegments == InitFonts /\ [][NextSegments]_vars

(***************************************************************************)
(* Positions: a face without 'B' as primary and a full face as fallback,   *)
(* two font sizes, the three alignments, the four image scaling modes, on  *)
(* a page with an A4 MediaBox, with a MediaBox whose lower edge is not 0,  *)
(* and with a MediaBox inherited from the root Pages node.  One insert.    *)
(***************************************************************************)
DrawTemplates ==
    { BoxTemplate(0, "root", 0, "ok"), BoxTemplate(0, "root", 0, "offset"),
      BoxTemplate(0, "root", 1, "offset") }

InitDraw == InitDoc({BoxTemplateObjects(t) : t \in DrawTemplates})

DrawTexts == {<<65>>, <<66, 65, 66>>}
DrawXs == {0, 10000}
DrawYs == {0, 5000}
DrawHeights == {200, 400}

NextDraw ==
    \/ AddFont("a", "part")
    \/ AddFont("a-bold", "full")
    \/ \E family \in FontNames, size \in Sizes : set_font(family, size)
    \/ \E size \in Sizes : SetFontSize(size)
    \/ SetFontFallback("a", <<"a-bold">>)
    \/ /\ history = << >>
       /\ \E text \in DrawTexts, x \in DrawXs, y \in DrawYs, align \in Aligns :
              insert_text(text, 1, x, y, align)
    \/ /\ history = << >>
       /\ \E data \in PageImages, y \in DrawYs, height \in DrawHeights, mode \in Modes :
              insert_image_scaled(data, 1, 0, y, 200, height, mode)

SpecDraw == InitDraw /\ [][NextDraw]_vars

(***************************************************************************)
(* Emission: aligned inserts at two sizes on one page, and saves.          *)
(***************************************************************************)
EmitTexts == {<<66>>, <<66, 65>>}

NextEmit ==
    \/ AddFont("a", "full")
    \/ \E size \in Sizes : set_font("a", size)
    \/ /\ inserts < MaxFontInserts
       /\ \E text \in EmitTexts, align \in Aligns : insert_text(text, 1, 10000, 5000, align)
    \/ SaveSubset
    \/ SaveEncode
    \/ SaveFlush
    \/ SaveEmbed
    \/ SaveAttach
    \/ SaveSerialize

SpecEmit == InitFonts /\ [][NextEmit]_vars

(***************************************************************************)
(* ToUnicode: one font whose used set grows by texts of distinct code      *)
(* points given in descending order; together the texts fill one bfchar    *)
(* block exactly, one block and a bit, and two blocks and a bit.  A text   *)
(* is inserted after the texts that end on smaller code points.            *)
(***************************************************************************)
DescendingText(lo, n) == [i \in 1..n |-> lo + n - i]

CMapTexts ==
    { DescendingText(60, 51), DescendingText(111, 49), DescendingText(160, 51),
      DescendingText(211, 50), DescendingText(160, 1) }

NextCMap ==
    \/ AddFont("a", "full")
    \/ SetFont("a")
    \/ \E text \in CMapTexts :
          /\ \A i \in DOMAIN buffered_text_ops : buffered_text_ops[i].text[1] < text[1]
          /\ InsertText(text, 1)
    \/ GenerateToUnicode

SpecCMap == InitFonts /\ [][NextCMap]_vars

(***************************************************************************)
(* Image formats: bytes with and without the two signatures, with and      *)
(* without a frame marker behind them.                                     *)
(***************************************************************************)
ImageData == {"img", "png", "pngff", "rawff", BadImage}

NextImages ==
    \/ \E data \in ImageData, page \in 1..2 : InsertImage(data, page)
    \/ \E page \in 1..2 : DuplicatePage(page)
    \/ SaveSubset
    \/ SaveEncode
    \/ SaveFlush
    \/ SaveEmbed
    \/ SaveAttach
    \/ SaveSerialize

SpecImages == InitFonts /\ [][NextImages]_vars

(***************************************************************************)
(* Resource tags asked for directly: get_or_create_font_ref is public and  *)
(* takes any font name and any page number.                                *)
(***************************************************************************)
GetOrCreateFontRef(font_name, page) ==
    /\ pc = Idle
    /\ Budget
    /\ LET r == get_or_create_font_ref([pfr |-> page_font_resources,
                                        nfr |-> next_font_resource], font_name, page)
       IN /\ page_font_resources' = r.pfr
          /\ next_font_resource' = r.nfr
          /\ last' = [op |-> "get_or_create_font_ref", res |-> "Ok",
                      tag |-> r.pfr[page][font_name]]
    /\ history' = Append(history, "get_or_create_font_ref")
    /\ UNCHANGED <<graphVars, fontVars, drawVars, embedded_fonts, imageVars,
                   font_fallbacks, bufferVars, pc>>

NextTags ==
    \/ AddFont("a", "full")
    \/ SetFont("a")
    \/ \E text \in {<<65>>, <<66>>} : InsertText(text, 1)
    \/ \E font_name \in FontNames, page \in 1..2 : GetOrCreateFontRef(font_name, page)
    \/ SaveSubset
    \/ SaveEncode
    \/ SaveFlush
    \/ SaveEmbed
    \/ SaveAttach
    \/ SaveSerialize

SpecTags == InitFonts /\ [][NextTags]_vars

(***************************************************************************)
(* Resources: a template page that already has a font, an image and a      *)
(* graphics state; the font under tag F1 or F7, the Resources dictionary   *)
(* direct or referenced.                                                   *)
(***************************************************************************)
ResourceTemplates ==
    {ResourceTemplate(form, font_tag) : form \in {"direct", "ref"}, font_tag \in {1, 7}}

InitResources == InitDoc({ResourceTemplateObjects(t) : t \in ResourceTemplates})

NextResources ==
    \/ AddFont("a", "full")
    \/ SetFont("a")
    \/ \E text \in {<<65>>, <<66>>} : InsertText(text, 1)
    \/ \E data \in PageImages : InsertImage(data, 1)
    \/ SaveSubset
    \/ SaveEncode
    \/ SaveFlush
    \/ SaveEmbed
    \/ SaveAttach
    \/ SaveSerialize

SpecResources == InitResources /\ [][NextResources]_vars

(***************************************************************************)
(* The current drawing state: family, size, weight and style over two      *)
(* legacy fonts that may or may not be registered.                         *)
(***************************************************************************)
NextSetters ==
    \/ \E name \in FontNames : AddFont(name, "full")
    \/ \E family \in FontNames, size \in Sizes : set_font(family, size)
    \/ \E size \in Sizes : SetFontSize(size)
    \/ \E weight \in Weights : SetFontWeight(weight)
    \/ \E style \in Styles : SetFontStyle(style)

SpecSetters == InitFonts /\ [][NextSetters]_vars

(***************************************************************************)
(* Page height: the MediaBox on the page, on the root Pages node 9, 10 or  *)
(* 11 levels above the page, on an intermediate node, or nowhere in a      *)
(* chain that ends at the root or runs in a cycle.  One insert.            *)
(***************************************************************************)
BoxTemplates ==
    { BoxTemplate(0, "root", -1, "none"), BoxTemplate(0, "root", 0, "offset"),
      BoxTemplate(3, "root", 2, "offset"), BoxTemplate(3, "cycle", -1, "none"),
      BoxTemplate(8, "root", 9, "offset"), BoxTemplate(9, "root", 10, "offset"),
      BoxTemplate(10, "root", 11, "offset"), BoxTemplate(9, "cycle", -1, "none") }

InitBoxes == InitDoc({BoxTemplateObjects(t) : t \in BoxTemplates})

NextBoxes ==
    \/ \E ttf \in {"part", "full"} : AddFont("a", ttf)
    \/ \E size \in Sizes : set_font("a", size)
    \/ /\ history = << >>
       /\ \E text \in DrawTexts, y \in DrawYs : insert_text(text, 1, 0, y, "Left")
    \/ /\ history = << >>
       /\ \E data \in PageImages, y \in DrawYs :
              insert_image_scaled(data, 1, 0, y, 200, 200, "Stretch")

SpecBoxes == InitBoxes /\ [][NextBoxes]_vars

(***************************************************************************)
(* Observations on the document                                            *)
(***************************************************************************)
\* The content a viewer sees on page p.
PageContent(p) == existing_content(objects, objects[get_pages[p]])

TextBlocks(content) == SelectSeq(content, LAMBDA b : b.kind = "text")

InsertedBlocks(content) == SelectSeq(content, LAMBDA b : b.kind # "template")

ObjectsOfKind(g, kinds) == {id \in DOMAIN g : g[id].kind \in kinds}

FontKinds == {"fontfile", "fontdescriptor", "cidfont", "tounicode", "type0"}

StreamKinds == {"stream", "fontfile", "tounicode", "image"}

\* The objects an object refers to.
ContentsRefs(contents) ==
    IF contents[1] = "ref" THEN {contents[2]}
    ELSE {contents[2][i] : i \in DOMAIN contents[2]}

Refs(g, id) ==
    LET o == g[id] IN
    CASE o.kind = "catalog" -> {o.pages}
      [] o.kind = "pages" -> {o.kids[i] : i \in DOMAIN o.kids}
      [] o.kind = "page" -> ContentsRefs(o.contents)
                              \cup {o.font[t] : t \in DOMAIN o.font}
                              \cup {o.xobject[t] : t \in DOMAIN o.xobject}
      [] o.kind = "type0" -> {o.descendant, o.tounicode}
      [] o.kind = "cidfont" -> {o.descriptor}
      [] o.kind = "fontdescriptor" -> {o.fontfile}
      [] OTHER -> {}

RECURSIVE Closure(_, _)
Closure(g, S) ==
    LET T == S \cup UNION {Refs(g, id) : id \in S}
    IN IF T = S THEN S ELSE Closure(g, T)

\* The objects reachable from the catalog.
Reachable(g) == Closure(g, {CatalogId})

\* The slots of the descriptors with a non-empty used set.
UsedSlots == {s \in LiveSlots : SlotData(s).used_chars # {}}

\* The key of the variant a (weight, style) pair asks for.
VariantKey(weight, style) ==
    IF weight = "Bold" /\ style = "Italic" THEN "bold_italic"
    ELSE IF weight = "Bold" THEN "bold"
    ELSE IF style = "Italic" THEN "italic"
    ELSE "regular"

\* The step is the completion of a call that buffered something.
Buffered(op) == /\ Len(history') = Len(history) + 1
                /\ history'[Len(history')] = op

(***************************************************************************)
(* C1. The save phases run in the fixed order: no buffered text op is      *)
(* encoded before every variant with a non-empty used set has been subset, *)
(* no page content stream is written before all buffered ops are encoded,  *)
(* and page font resources are attached only after every used variant has  *)
(* been embedded (with the characters it is used for).                     *)
(***************************************************************************)
AllUsedSubset ==
    \A s \in UsedSlots :
        /\ SlotData(s).has_subset
        /\ SlotData(s).used_chars \subseteq SlotData(s).subset_chars

AllUsedEmbedded ==
    \A s \in UsedSlots :
        /\ SlotData(s).name \in DOMAIN embedded_fonts
        /\ LET type0 == objects[embedded_fonts[SlotData(s).name]]
           IN SlotData(s).used_chars \subseteq objects[type0.tounicode].chars

EncodeStep == buffered_text_ops # << >> /\ buffered_text_ops' = << >>

StreamWritten ==
    \E p \in 1..page_count :
        objects'[get_pages[p]].contents # objects[get_pages[p]].contents

ResourcesAttached ==
    \E p \in 1..page_count : objects'[get_pages[p]].font # objects[get_pages[p]].font

C1_SavePhasesInOrder ==
    [][ /\ EncodeStep => AllUsedSubset
        /\ StreamWritten => buffered_text_ops = << >>
        /\ ResourcesAttached => AllUsedEmbedded ]_vars

(***************************************************************************)
(* C2. In every reachable state, every code point of every buffered text   *)
(* op is in the used-characters set of the descriptor that the op's        *)
(* variant name designates.                                                *)
(***************************************************************************)
C2_UsedCharsCoverBufferedText ==
    \A i \in DOMAIN buffered_text_ops :
        LET op == buffered_text_ops[i] IN
        /\ get_font_slot(op.font_name) # NoSlot
        /\ CharsOf(op.text) \subseteq get_font_data(op.font_name).used_chars

(***************************************************************************)
(* C3. After every save, every indirect stream object of the document      *)
(* (content stream, font file, ToUnicode, image XObject) is reachable from *)
(* the catalog.                                                            *)
(***************************************************************************)
C3_NoOrphanStreamsAfterSave ==
    (pc = Idle /\ last.op = "save") =>
        ObjectsOfKind(objects, StreamKinds) \subseteq Reachable(objects)

(***************************************************************************)
(* C4. A save that directly follows a save leaves the numbers of page      *)
(* dictionaries, content stream objects and font objects unchanged: none   *)
(* of its steps changes any of the three.                                  *)
(***************************************************************************)
ObjectCounts(g) ==
    <<Cardinality(ObjectsOfKind(g, {"page"})),
      Cardinality(ObjectsOfKind(g, {"stream"})),
      Cardinality(ObjectsOfKind(g, FontKinds))>>

C4_SecondSaveKeepsObjectCounts ==
    [][ (last.op = "save" /\ last'.op = "save") =>
            ObjectCounts(objects') = ObjectCounts(objects) ]_vars

(***************************************************************************)
(* C5. After insert_text, save, insert_text with the same variant and a    *)
(* second save, the page's content holds the text blocks of both inserts   *)
(* and the document holds exactly one Type0 font object per used variant.  *)
(***************************************************************************)
Type0Of(name) == {id \in ObjectsOfKind(objects, {"type0"}) : objects[id].font = name}

C5_SecondSaveOneType0PerVariant ==
    (pc = Idle /\ history = <<"insert_text", "save", "insert_text", "save">>) =>
        /\ Len(TextBlocks(PageContent(1))) = 2
        /\ \A n \in UsedNames : Cardinality(Type0Of(n)) = 1

(***************************************************************************)
(* C6. A save adds exactly one new content stream object for every page    *)
(* whose accumulator is non-empty, makes it that page's Contents, and adds *)
(* none for any other page; insert_text and insert_image add no content    *)
(* stream object.                                                          *)
(***************************************************************************)
NewStreams == ObjectsOfKind(objects', {"stream"}) \ DOMAIN objects

DirtyPages == {p \in DOMAIN page_content_buffer : page_content_buffer[p] # << >>}

SaveStep == pc # Idle \/ pc' # Idle

InsertStep ==
    /\ pc = Idle /\ pc' = Idle
    /\ last'.op \in {"insert_text", "insert_image"}

OneStreamPerDirtyPage ==
    /\ Cardinality(NewStreams) = Cardinality(DirtyPages)
    /\ \A p \in 1..page_count :
          IF p \in DirtyPages
          THEN /\ objects'[get_pages[p]].contents[1] = "ref"
               /\ objects'[get_pages[p]].contents[2] \in NewStreams
               /\ \A q \in DirtyPages \ {p} :
                     objects'[get_pages[q]].contents # objects'[get_pages[p]].contents
          ELSE objects'[get_pages[p]].contents = objects[get_pages[p]].contents

C6_OneContentStreamPerPagePerSave ==
    [][ /\ (SaveStep /\ pc = "flush") => OneStreamPerDirtyPage
        /\ (SaveStep /\ pc # "flush") => NewStreams = {}
        /\ InsertStep => NewStreams = {} ]_vars

\* Two inserts on one page were written by one save.
C6_Witness ==
    /\ pc = Idle
    /\ history = <<"insert_image", "insert_text", "save">>
    /\ Len(InsertedBlocks(PageContent(1))) = 2

(***************************************************************************)
(* C7. Text inserted on page p, p duplicated, then save: the new page's    *)
(* content contains the text block and equals page p's content.            *)
(***************************************************************************)
C7_DuplicateCarriesPendingText ==
    (pc = Idle /\ history = <<"insert_text", "duplicate_page", "save">>) =>
        /\ TextBlocks(PageContent(2)) # << >>
        /\ PageContent(2) = PageContent(1)

(***************************************************************************)
(* C8. For a family registered with register_font_family and selected with *)
(* set_font, the name insert_text resolves for the current (weight, style) *)
(* is the name of the descriptor stored for that variant; with Regular,    *)
(* Normal and a valid page insert_text succeeds.                           *)
(***************************************************************************)
BuiltFamily(f) == f \in DOMAIN font_families /\ f \notin DOMAIN fonts

C8_ResolvedNameIsStoredName ==
    BuiltFamily(current_family) =>
        LET stored == font_families[current_family]
                          [VariantKey(current_weight, current_style)]
        IN /\ stored.present => get_current_font_name = stored.name
           /\ ( /\ current_weight = "Regular" /\ current_style = "Normal"
                /\ last.op = "insert_text" /\ last.res # "InvalidPage" )
                  => last.res = "Ok"

(***************************************************************************)
(* C9. When the requested variant is absent from the selected family,      *)
(* insert_text does not fail with FontNotFound: it buffers the op under    *)
(* the first present variant of the selection precedence.                  *)
(***************************************************************************)
RequestedAbsent ==
    /\ current_family \in DOMAIN font_families
    /\ ~font_families[current_family][VariantKey(current_weight, current_style)].present

C9_AbsentVariantFallsBack ==
    /\ [](( /\ RequestedAbsent
            /\ last.op = "insert_text" /\ last.res # "InvalidPage" ) => last.res = "Ok")
    /\ [][ ( /\ RequestedAbsent
             /\ current_family \notin DOMAIN font_fallbacks
             /\ Buffered("insert_text") ) =>
               buffered_text_ops'[Len(buffered_text_ops')].font_name =
                   get_variant(font_families[current_family],
                               current_weight, current_style).name ]_vars

(***************************************************************************)
(* C10. No two distinct live font descriptors carry the same name; the     *)
(* legacy font and the one-variant family of one add_font call count as    *)
(* one descriptor.                                                         *)
(***************************************************************************)
SameDescriptor(s, t) ==
    \/ s = t
    \/ /\ s[2] = t[2] /\ s[3] = "regular" /\ t[3] = "regular"
       /\ {s[1], t[1]} = {"legacy", "family"}

C10_LiveNamesUnique ==
    \A s, t \in LiveSlots :
        SlotData(s).name = SlotData(t).name => SameDescriptor(s, t)

(***************************************************************************)
(* C11. Whenever insert_text or insert_image returns an error, the         *)
(* document state is exactly as before the call: no object added, no tag   *)
(* minted, no counter advanced, no used character recorded, nothing        *)
(* buffered.                                                               *)
(***************************************************************************)
InsertFailed ==
    /\ pc = Idle /\ pc' = Idle
    /\ last'.op \in {"insert_text", "insert_image"}
    /\ last'.res # "Ok"

DocumentState ==
    <<graphVars, fontVars, drawVars, embedded_fonts, fontResVars, imageVars,
      font_fallbacks, bufferVars>>

C11_FailedInsertLeavesDocument ==
    [][InsertFailed => DocumentState' = DocumentState]_vars

(***************************************************************************)
(* C12. Within each page no font tag is bound to two font names and no     *)
(* image tag to two image objects; a tag minted for a (page, font) or      *)
(* (page, image) pair is never changed afterwards and is the tag every     *)
(* buffered op of that pair carries; a newly minted tag is numbered above  *)
(* every tag the page already has.                                         *)
(***************************************************************************)
TagsOf(m, page) == IF page \in DOMAIN m THEN m[page] ELSE EmptyMap

TagValues(m, page) == {TagsOf(m, page)[k] : k \in DOMAIN TagsOf(m, page)}

TagsUnique ==
    /\ \A page \in DOMAIN page_font_resources :
          \A n1, n2 \in DOMAIN page_font_resources[page] :
              page_font_resources[page][n1] = page_font_resources[page][n2] => n1 = n2
    /\ \A page \in DOMAIN page_image_resources :
          \A tag \in DOMAIN page_image_resources[page] :
              LET dict == objects[get_pages[page]].xobject
              IN tag \in DOMAIN dict /\ dict[tag] = page_image_resources[page][tag]
    /\ \A i \in DOMAIN buffered_text_ops :
          LET op == buffered_text_ops[i]
          IN op.font_resource_name = TagsOf(page_font_resources, op.page)[op.font_name]

TagsStable ==
    /\ \A page \in DOMAIN page_font_resources :
          \A n \in DOMAIN page_font_resources[page] :
              /\ n \in DOMAIN TagsOf(page_font_resources', page)
              /\ page_font_resources'[page][n] = page_font_resources[page][n]
    /\ \A page \in DOMAIN page_image_resources :
          \A tag \in DOMAIN page_image_resources[page] :
              /\ tag \in DOMAIN TagsOf(page_image_resources', page)
              /\ page_image_resources'[page][tag] = page_image_resources[page][tag]

TagsInFirstUseOrder ==
    \A page \in 1..page_count :
        /\ \A n \in DOMAIN TagsOf(page_font_resources', page)
                      \ DOMAIN TagsOf(page_font_resources, page) :
              /\ page_font_resources'[page][n] = next_font_resource
              /\ next_font_resource' > next_font_resource
              /\ \A t \in TagValues(page_font_resources, page) :
                    t < page_font_resources'[page][n]
        /\ \A tag \in DOMAIN TagsOf(page_image_resources', page)
                        \ DOMAIN TagsOf(page_image_resources, page) :
              /\ tag = next_image_resource
              /\ next_image_resource' > next_image_resource
              /\ \A t \in DOMAIN TagsOf(page_image_resources, page) : t < tag

C12_TagsUniqueAndStable ==
    /\ []TagsUnique
    /\ [][TagsStable /\ TagsInFirstUseOrder]_vars

\* A duplicated page carries two font tags across a save.
C12_Witness ==
    /\ pc = Idle
    /\ history = <<"insert_text", "insert_text", "save", "duplicate_page">>
    /\ Cardinality(DOMAIN TagsOf(page_font_resources, 2)) = 2

(***************************************************************************)
(* C13. The text blocks of a page keep the order of the insert_text calls: *)
(* the sequence made of the page's written content (template content and   *)
(* text blocks), its accumulated blocks and its pending ops only ever      *)
(* grows at its end, and only by an insert_text call, so an earlier call's *)
(* block precedes a later call's block whether one save or several flush   *)
(* them, and all follow the template's content.                            *)
(***************************************************************************)
RECURSIVE TextsOf(_)
TextsOf(blocks) ==
    IF blocks = << >> THEN << >>
    ELSE IF Head(blocks).kind = "text" THEN <<Head(blocks).text>> \o TextsOf(Tail(blocks))
    ELSE IF Head(blocks).kind = "template" THEN <<"template">> \o TextsOf(Tail(blocks))
    ELSE TextsOf(Tail(blocks))

RECURSIVE PendingTexts(_, _)
PendingTexts(ops, page) ==
    IF ops = << >> THEN << >>
    ELSE (IF Head(ops).page = page THEN <<Head(ops).text>> ELSE << >>)
            \o PendingTexts(Tail(ops), page)

\* Written, accumulated and pending text of page p, in this order.
TextOrder(g, b, ops, p) ==
    TextsOf(existing_content(g, g[get_pages[p]]))
        \o TextsOf(TagsOf(b, p))
        \o PendingTexts(ops, p)

\* new is old, or old with more at its end, which only a call may cause.
GrowsAtEnd(old, new, call) ==
    \/ new = old
    \/ /\ call
       /\ Len(new) > Len(old)
       /\ SubSeq(new, 1, Len(old)) = old

C13_TextBlocksInInsertionOrder ==
    [][ \/ UNCHANGED <<objects, bufferVars>>
        \/ \A p \in 1..page_count :
              GrowsAtEnd(TextOrder(objects, page_content_buffer, buffered_text_ops, p),
                         TextOrder(objects', page_content_buffer', buffered_text_ops', p),
                         Buffered("insert_text")) ]_vars

\* Two different texts, flushed by two saves, stand in call order.
C13_Witness ==
    /\ pc = Idle
    /\ history = <<"insert_text", "save", "insert_text", "save">>
    /\ LET blocks == TextBlocks(PageContent(1))
       IN Len(blocks) = 2 /\ blocks[1].text = <<65>> /\ blocks[2].text = <<66, 65>>

(***************************************************************************)
(* C14. Within a page the operator blocks stand in the order of the insert *)
(* calls, text and image alike: after insert_text, insert_image on the     *)
(* same page and save, the text block precedes the image block.            *)
(***************************************************************************)
Positions(content, kind) == {i \in DOMAIN content : content[i].kind = kind}

C14_TextBeforeLaterImage ==
    (pc = Idle /\ history = <<"insert_text", "insert_image", "save">>) =>
        \A i \in Positions(PageContent(1), "text") :
            \A j \in Positions(PageContent(1), "image") : i < j

(***************************************************************************)
(* C15. After a successful save, for every page and every (font name, tag) *)
(* recorded for it, the page's Resources/Font/<tag> refers to the Type0    *)
(* object this save embedded for that name, and every tag a text block of  *)
(* the page's content names is bound in the page's Font dictionary.        *)
(***************************************************************************)
C15_TagsBoundToEmbeddedFonts ==
    (pc = Idle /\ last.op = "save") =>
        /\ \A page \in DOMAIN page_font_resources :
              \A n \in DOMAIN page_font_resources[page] :
                  LET dict == objects[get_pages[page]].font
                      tag == page_font_resources[page][n]
                  IN /\ n \in DOMAIN embedded_fonts
                     /\ tag \in DOMAIN dict
                     /\ dict[tag] = embedded_fonts[n]
                     /\ objects[dict[tag]].kind = "type0"
                     /\ objects[dict[tag]].font = n
        /\ \A page \in 1..page_count :
              \A i \in Positions(PageContent(page), "text") :
                  PageContent(page)[i].tag \in DOMAIN objects[get_pages[page]].font

\* A second save has rebound the two font tags of page 1.
C15_Witness ==
    /\ pc = Idle /\ last.op = "save"
    /\ history = <<"insert_text", "save", "insert_text", "save">>
    /\ Cardinality(DOMAIN objects[get_pages[1]].font) = 2

(***************************************************************************)
(* C16. Images are deduplicated by content: every distinct image has one   *)
(* XObject in the document and, on each page, one tag.  An insert_image    *)
(* appends one block naming the page's tag of the image; it adds an        *)
(* XObject only for bytes not yet embedded and advances the tag counter    *)
(* only when the page had no tag for the image.                            *)
(***************************************************************************)
ImageTags(m, page, object_id) ==
    {t \in DOMAIN TagsOf(m, page) : m[page][t] = object_id}

OneXObjectPerImage ==
    /\ \A id \in ObjectsOfKind(objects, {"image"}) :
          /\ objects[id].data \in DOMAIN embedded_images
          /\ embedded_images[objects[id].data] = id
    /\ \A page \in DOMAIN page_image_resources :
          \A t1, t2 \in DOMAIN page_image_resources[page] :
              page_image_resources[page][t1] = page_image_resources[page][t2] => t1 = t2

ImageInsertReuses ==
    Buffered("insert_image") =>
        \E page \in 1..page_count, data \in DOMAIN embedded_images' :
            LET object_id == embedded_images'[data]
                tags == ImageTags(page_image_resources', page, object_id)
            IN /\ \E tag \in tags :
                     /\ tags = {tag}
                     /\ page \in DOMAIN page_content_buffer'
                     /\ page_content_buffer'[page] # << >>
                     /\ \E block \in {page_content_buffer'[page][Len(page_content_buffer'[page])]} :
                           /\ block.kind = "image" /\ block.tag = tag
                           /\ page_content_buffer' =
                                 buffer_content(page_content_buffer, page, block)
               /\ IF data \in DOMAIN embedded_images
                  THEN /\ embedded_images' = embedded_images
                       /\ ObjectsOfKind(objects', {"image"}) = ObjectsOfKind(objects, {"image"})
                  ELSE ObjectsOfKind(objects', {"image"}) =
                          ObjectsOfKind(objects, {"image"}) \cup {object_id}
               /\ IF data \in DOMAIN embedded_images
                     /\ ImageTags(page_image_resources, page, embedded_images[data]) # {}
                  THEN UNCHANGED <<page_image_resources, next_image_resource>>
                  ELSE /\ next_image_resource' = next_image_resource + 1
                       /\ \A other \in DOMAIN page_image_resources' \ {page} :
                             TagsOf(page_image_resources', other) =
                                TagsOf(page_image_resources, other)

C16_ImagesDeduplicated ==
    /\ []OneXObjectPerImage
    /\ [][ImageInsertReuses]_vars

\* The same image twice on page 1 and once on page 2: one XObject, one tag
\* on each page.
C16_Witness ==
    /\ history = <<"duplicate_page", "insert_image", "insert_image", "insert_image">>
    /\ Cardinality(ObjectsOfKind(objects, {"image"})) = 1
    /\ 1 \in DOMAIN page_content_buffer /\ 2 \in DOMAIN page_content_buffer
    /\ Len(page_content_buffer[1]) = 2
    /\ page_content_buffer[1][1] = page_content_buffer[1][2]
    /\ Len(page_content_buffer[2]) = 1
    /\ page_content_buffer[2][1].tag # page_content_buffer[1][1].tag
    /\ Cardinality(DOMAIN page_image_resources[1]) = 1
    /\ Cardinality(DOMAIN page_image_resources[2]) = 1

(***************************************************************************)
(* C17. duplicate_page gives the new page its own copies of the source's   *)
(* content streams: no content stream object is referenced by the Contents *)
(* of two different pages.                                                 *)
(***************************************************************************)
C17_NoSharedContentStream ==
    \A p, q \in 1..page_count :
        p # q => ContentsRefs(objects[get_pages[p]].contents)
                    \cap ContentsRefs(objects[get_pages[q]].contents) = {}

(***************************************************************************)
(* C18. Pages are isolated from each other, a duplicate and its source     *)
(* included: an insert changes the font-tag map, the image-tag map, the    *)
(* accumulator, the pending text and the dictionary of at most one page;   *)
(* a save step keeps every tag map, replaces the Contents of a page only   *)
(* when that page has accumulated content, keeps every XObject dictionary  *)
(* and binds in a page's Font dictionary only tags of that page's own map. *)
(***************************************************************************)
PageState(p) ==
    <<TagsOf(page_font_resources, p), TagsOf(page_image_resources, p),
      TagsOf(page_content_buffer, p), PendingTexts(buffered_text_ops, p),
      objects[get_pages[p]]>>

InsertTouchesOnePage ==
    InsertStep =>
        \E q \in 1..page_count :
            \A p \in 1..page_count \ {q} : PageState(p)' = PageState(p)

SaveKeepsOtherPages ==
    SaveStep =>
        \A p \in 1..page_count :
            LET old == objects[get_pages[p]]
                new == objects'[get_pages[p]]
            IN /\ TagsOf(page_font_resources', p) = TagsOf(page_font_resources, p)
               /\ TagsOf(page_image_resources', p) = TagsOf(page_image_resources, p)
               /\ TagsOf(page_content_buffer, p) = << >> =>
                     /\ new.contents = old.contents
                     /\ PageContent(p)' = PageContent(p)
               /\ new.xobject = old.xobject
               /\ \A t \in DOMAIN new.font :
                     \/ t \in DOMAIN old.font /\ new.font[t] = old.font[t]
                     \/ t \in TagValues(page_font_resources, p)

DuplicateMirrorsTags ==
    Buffered("duplicate_page") =>
        \E p \in 1..page_count :
            /\ TagsOf(page_font_resources', page_count + 1) = TagsOf(page_font_resources, p)
            /\ TagsOf(page_image_resources', page_count + 1) = TagsOf(page_image_resources, p)
            /\ objects'[max_id'].font = objects[get_pages[p]].font
            /\ objects'[max_id'].xobject = objects[get_pages[p]].xobject
            /\ \A q \in 1..page_count :
                  /\ TagsOf(page_font_resources', q) = TagsOf(page_font_resources, q)
                  /\ TagsOf(page_image_resources', q) = TagsOf(page_image_resources, q)

DuplicateReusesTags ==
    /\ Buffered("insert_text") =>
          \A i \in (DOMAIN buffered_text_ops') \ (DOMAIN buffered_text_ops) :
              LET op == buffered_text_ops'[i] IN
              (op.page > 1 /\ op.font_name \in DOMAIN TagsOf(page_font_resources, op.page)) =>
                  /\ op.font_resource_name = page_font_resources[op.page][op.font_name]
                  /\ UNCHANGED <<page_font_resources, next_font_resource>>
    /\ Buffered("insert_image") =>
          \A q \in 2..page_count :
              TagsOf(page_content_buffer', q) # TagsOf(page_content_buffer, q) =>
                  LET block == page_content_buffer'[q][Len(page_content_buffer'[q])]
                      object_id == page_image_resources'[q][block.tag]
                  IN ImageTags(page_image_resources, q, object_id) # {} =>
                        /\ ImageTags(page_image_resources, q, object_id) = {block.tag}
                        /\ UNCHANGED <<page_image_resources, next_image_resource>>

DuplicateTagsBound ==
    (pc = Idle /\ last.op = "save") =>
        \A q \in 2..page_count :
            /\ \A i \in Positions(PageContent(q), "text") :
                  LET tag == PageContent(q)[i].tag IN
                  /\ tag \in TagValues(page_font_resources, q)
                  /\ tag \in DOMAIN objects[get_pages[q]].font
            /\ \A i \in Positions(PageContent(q), "image") :
                  LET tag == PageContent(q)[i].tag IN
                  /\ tag \in DOMAIN TagsOf(page_image_resources, q)
                  /\ tag \in DOMAIN objects[get_pages[q]].xobject

C19_DuplicateMirrorsTags ==
    /\ []DuplicateTagsBound
    /\ [][ \/ UNCHANGED history
           \/ DuplicateMirrorsTags /\ DuplicateReusesTags ]_vars

\* Page 1 had a font tag when it was duplicated; the same font went on the
\* duplicate without a new tag, and a save bound it there.
C19_Witness ==
    /\ pc = Idle /\ last.op = "save"
    /\ history = <<"insert_text", "duplicate_page", "insert_text", "save">>
    /\ next_font_resource = 2
    /\ TagsOf(page_font_resources, 2) = TagsOf(page_font_resources, 1)
    /\ Positions(PageContent(2), "text") # {}
    /\ DOMAIN objects[get_pages[2]].font = {1}

(***************************************************************************)
(* C20. A successful duplicate_page or add_blank_page returns the old      *)
(* page count plus one, raises the page count by exactly one, appends one  *)
(* entry, the new page, at the end of the root Pages Kids array and adds   *)
(* one to its Count, and leaves the page number and the dictionary of      *)
(* every existing page unchanged.                                          *)
(***************************************************************************)
PageAppended ==
    (Buffered("duplicate_page") \/ Buffered("add_blank_page")) =>
        LET root == objects[CatalogId].pages IN
        /\ last'.res = "Ok"
        /\ last'.page = page_count + 1
        /\ page_count' = page_count + 1
        /\ objects'[CatalogId].pages = root
        /\ objects'[root].kids = Append(objects[root].kids, max_id')
        /\ objects'[root].count = objects[root].count + 1
        /\ max_id' > max_id
        /\ objects'[max_id'].kind = "page"
        /\ get_pages'[last'.page] = max_id'
        /\ \A n \in 1..page_count :
              /\ get_pages'[n] = get_pages[n]
              /\ objects'[get_pages[n]] = objects[get_pages[n]]

C20_NewPageIsLast ==
    [][UNCHANGED history \/ PageAppended]_vars

\* A blank page became page 2 and a duplicate became page 3.
C20_Witness ==
    /\ history = <<"add_blank_page", "duplicate_page">>
    /\ last = PageResult("duplicate_page", 3)
    /\ page_count = 3
    /\ objects[RootPagesId].count = 3

(***************************************************************************)
(* C21. insert_text, insert_image and duplicate_page return                *)
(* InvalidPage(given, total), with total the current page count, exactly   *)
(* when the given page number is 0 or greater than the page count; a page  *)
(* added by duplicate_page or add_blank_page is accepted.                  *)
(***************************************************************************)
PageChecked(op, page) ==
    IF page = 0 \/ page > page_count
    THEN last' = [op |-> op, res |-> "InvalidPage", given |-> page, total |-> page_count]
    ELSE last'.op = op /\ last'.res # "InvalidPage"

C21_InvalidPageExactly ==
    [][ \/ last'.op \notin {"insert_text", "insert_image", "duplicate_page"}
        \/ /\ last'.op = "insert_text" =>
                 \A text \in Texts, page \in ErrorPages :
                     InsertText(text, page) => PageChecked("insert_text", page)
           /\ last'.op = "insert_image" =>
                 \A data \in Images, page \in ErrorPages :
                     InsertImage(data, page) => PageChecked("insert_image", page)
           /\ last'.op = "duplicate_page" =>
                 \A page \in ErrorPages :
                     DuplicatePage(page) => PageChecked("duplicate_page", page) ]_vars

\* An image went on the added page 2, and page 0 was then refused with a
\* total of 2.
C21_Witness ==
    /\ page_count = 2
    /\ 2 \in DOMAIN page_content_buffer
    /\ last = [op |-> "insert_text", res |-> "InvalidPage", given |-> 0, total |-> 2]

(***************************************************************************)
(* C22. insert_text with an empty string on a valid page returns success   *)
(* and changes nothing, whether or not a font family has been selected: no *)
(* buffered op, no used character, no resource tag, no counter, no object; *)
(* the document a following save works on is the one it would work on      *)
(* without the call.                                                       *)
(***************************************************************************)
C22_EmptyTextIsNoOp ==
    [][ last'.op = "insert_text" =>
            \A page \in 1..page_count :
                InsertText(<< >>, page) =>
                    /\ last' = Result("insert_text", "Ok")
                    /\ DocumentState' = DocumentState
                    /\ UNCHANGED <<history, pc>> ]_vars

\* An empty text was accepted before any family was selected.
C22_Witness ==
    /\ last = Result("insert_text", "Ok")
    /\ current_family = NoFamily
    /\ buffered_text_ops = << >>
    /\ page_font_resources = EmptyMap
    /\ next_font_resource = 1

(***************************************************************************)
(* C23. For every non-empty text and every fallback configuration the      *)
(* segments of segment_text_by_font are non-empty, their texts             *)
(* concatenated in order are the input code point by code point, and two   *)
(* consecutive segments never carry the same font name.                    *)
(***************************************************************************)
RECURSIVE ConcatTexts(_)
ConcatTexts(segments) ==
    IF segments = << >> THEN << >>
    ELSE Head(segments).text \o ConcatTexts(Tail(segments))

Partitions(segments, text) ==
    /\ segments # << >>
    /\ \A i \in DOMAIN segments : segments[i].text # << >>
    /\ ConcatTexts(segments) = text
    /\ \A i \in 1..(Len(segments) - 1) :
          segments[i].font_name # segments[i + 1].font_name

C23_SegmentsPartitionText ==
    (current_family # NoFamily /\ current_family \in DOMAIN font_fallbacks) =>
        \A text \in SegTexts :
            Partitions(segment_text_by_font(text, current_family, get_current_font_name),
                       text)

\* "BAB" was inserted with a primary face that lacks 'B' and a fallback that
\* has it: three buffered segments, alternating between the two fonts.
C23_Witness ==
    /\ last = Result("insert_text", "Ok")
    /\ current_family \in DOMAIN font_fallbacks
    /\ Len(buffered_text_ops) = 3
    /\ [i \in 1..3 |-> buffered_text_ops[i].text] = <<<<66>>, <<65>>, <<66>>>>
    /\ buffered_text_ops[1].font_name # buffered_text_ops[2].font_name
    /\ buffered_text_ops[3].font_name = buffered_text_ops[1].font_name
    /\ Len(segment_text_by_font(<<66, 65, 66>>, current_family, get_current_font_name)) = 3

(***************************************************************************)
(* C24. Segmentation assigns each code point to the primary variant, the   *)
(* variant of the current family selected by the current (weight, style),  *)
(* when that variant has a glyph for it; otherwise to the variant,         *)
(* selected the same way, of the first family of the fallback list that    *)
(* has a glyph for it; otherwise to the primary variant.                   *)
(***************************************************************************)
SelectedVariant(family) ==
    get_variant(font_families[family], current_weight, current_style)

ExpectedFont(c) ==
    LET primary == SelectedVariant(current_family)
        chain == font_fallbacks[current_family]
        covering == {i \in DOMAIN chain : has_glyph(SelectedVariant(chain[i]), c)}
    IN IF has_glyph(primary, c) THEN primary.name
       ELSE IF covering # {}
            THEN SelectedVariant(chain[CHOOSE i \in covering : \A j \in covering : i <= j]).name
       ELSE primary.name

C24_CodePointAssignment ==
    (current_family # NoFamily /\ current_family \in DOMAIN font_fallbacks) =>
        \A c \in SegChars :
            font_for_char(c, current_family, get_current_font_name) = ExpectedFont(c)

(***************************************************************************)
(* C25. For one insert_text call with anchor x and total width W, the sum  *)
(* of the segment widths each measured with the segment's own font, the    *)
(* first buffered op stores x for Left, x - W/2 for Center and x - W for   *)
(* Right, and every following op stores the previous op's x plus the       *)
(* previous segment's width.                                               *)
(***************************************************************************)
\* The ops the step has appended.
NewOps == SubSeq(buffered_text_ops', Len(buffered_text_ops) + 1, Len(buffered_text_ops'))

OpWidth(op) == text_width_points(get_font_data(op.font_name), op.text, op.font_size)

RECURSIVE SumWidths(_)
SumWidths(ops) == IF ops = << >> THEN 0 ELSE OpWidth(Head(ops)) + SumWidths(Tail(ops))

PlacedFrom(ops, x, align) ==
    /\ ops # << >>
    /\ align = "Left" => ops[1].x = x
    /\ align = "Center" => 2 * (x - ops[1].x) = SumWidths(ops)
    /\ align = "Right" => x - ops[1].x = SumWidths(ops)
    /\ \A i \in 1..(Len(ops) - 1) : ops[i + 1].x = ops[i].x + OpWidth(ops[i])

C25_SegmentsAtConsecutiveX ==
    [][ Buffered("insert_text") =>
            \A text \in DrawTexts, x \in DrawXs, y \in DrawYs, align \in Aligns :
                insert_text(text, 1, x, y, align) => PlacedFrom(NewOps, x, align) ]_vars

\* "BAB" was centred on x = 100 pt at 16 pt: three ops, the first one left of
\* the anchor, the others each further right.
C25_Witness ==
    /\ last = Result("insert_text", "Ok")
    /\ Len(buffered_text_ops) = 3
    /\ buffered_text_ops[1].font_size = 16
    /\ buffered_text_ops[1].font_name # buffered_text_ops[2].font_name
    /\ buffered_text_ops[1].x < 10000
    /\ 2 * (10000 - buffered_text_ops[1].x) = SumWidths(buffered_text_ops)
    /\ buffered_text_ops[1].x < buffered_text_ops[2].x
    /\ buffered_text_ops[2].x < buffered_text_ops[3].x

(***************************************************************************)
(* C26. Stored y coordinates are bottom-origin: a text op stores           *)
(* page_height - y and an image block stores page_height - y - height of   *)
(* the displayed image, where page_height is the upper edge minus the      *)
(* lower edge of the MediaBox in effect for the page.                      *)
(***************************************************************************)
\* The box of the nearest dictionary, from id upwards along Parent, that has
\* one; NoBox when `fuel` dictionaries have none.
RECURSIVE NearestBox(_, _, _)
NearestBox(g, id, fuel) ==
    IF fuel = 0 \/ id \notin DOMAIN g THEN NoBox
    ELSE IF BoxOf(g[id]) # NoBox THEN BoxOf(g[id])
    ELSE IF ParentOf(g[id]) = 0 THEN NoBox
    ELSE NearestBox(g, ParentOf(g[id]), fuel - 1)

PageId(page) == objects[objects[CatalogId].pages].kids[page]

EffectiveHeight(page) ==
    LET arr == MediaBoxArray(NearestBox(objects, PageId(page), Len(objects)))
    IN arr[4] - arr[2]

LastBlock(page) == page_content_buffer'[page][Len(page_content_buffer'[page])]

ClaimedHeight(page) ==
    LET box == NearestBox(objects, PageId(page), MaxParentWalk + 1)
    IN IF box = NoBox THEN A4Box[4]
       ELSE MediaBoxArray(box)[4] - MediaBoxArray(box)[2]

C27_HeightWithinTenLevels ==
    [][ last'.op = "insert_text" =>
            \A text \in DrawTexts, y \in DrawYs :
                insert_text(text, 1, 0, y, "Left") =>
                    /\ last'.res # "ParseError"
                    /\ \A i \in DOMAIN NewOps : NewOps[i].y = ClaimedHeight(1) - y ]_vars

(***************************************************************************)
(* C28. add_font and register_font_family answer FontAlreadyExists(name)   *)
(* whenever the name is already a family or a legacy font; with a free     *)
(* name, unparseable bytes or a builder without a regular variant give     *)
(* FontParseError; a registration that fails leaves the whole document,    *)
(* the fonts, the families and their used sets included, as it was.        *)
(***************************************************************************)
NameIsRegistered(name) == name \in DOMAIN fonts \cup DOMAIN font_families

BuilderIsBroken(b) == b.regular = Absent \/ \E v \in VariantKeys : b[v] = BadTTF

RegistrationAnswer(op, name, broken) ==
    IF NameIsRegistered(name) THEN last' = NamedError(op, "FontAlreadyExists", name)
    ELSE IF broken THEN last' = Result(op, "FontParseError")
    ELSE last' = Result(op, "Ok") /\ name \in DOMAIN font_families'

C28_FailedRegistrationRegistersNothing ==
    [][ last'.op \in {"add_font", "register_font_family"} =>
            /\ last'.res # "Ok" => DocumentState' = DocumentState
            /\ last'.op = "add_font" =>
                  \A name \in FontNames, ttf \in TTFs :
                      AddFont(name, ttf) => RegistrationAnswer("add_font", name, ttf = BadTTF)
            /\ last'.op = "register_font_family" =>
                  \A name \in FontNames, b \in Builders :
                      RegisterFontFamily(name, b) =>
                          RegistrationAnswer("register_font_family", name, BuilderIsBroken(b)) ]_vars

\* "a" is a legacy font that has been used in an insert, and registering a
\* family under its name was refused.
C28_Witness ==
    /\ last = NamedError("register_font_family", "FontAlreadyExists", "a")
    /\ "a" \in DOMAIN fonts
    /\ font_families["a"].regular.used_chars # {}

(***************************************************************************)
(* C29. While no family is selected, set_font_size, set_font_weight and    *)
(* set_font_style fail with FontNotFound and change nothing.  set_font     *)
(* with a name that is neither a family nor a legacy font fails with       *)
(* FontNotFound(name) and leaves family, size, weight and style; a         *)
(* successful set_font sets the family and the size and nothing else.      *)
(***************************************************************************)
SetFontAnswer(family, size) ==
    IF NameIsRegistered(family)
    THEN /\ last' = Result("set_font", "Ok")
         /\ current_family' = family
         /\ current_font_size' = size
         /\ UNCHANGED <<current_weight, current_style>>
         /\ UNCHANGED <<graphVars, fontVars, embedded_fonts, fontResVars, imageVars,
                        font_fallbacks, bufferVars>>
    ELSE /\ last' = NamedError("set_font", "FontNotFound", family)
         /\ DocumentState' = DocumentState

C29_SettersNeedFamily ==
    [][ last'.op \in {"set_font", "set_font_size", "set_font_weight", "set_font_style"} =>
            /\ (last'.op # "set_font" /\ current_family = NoFamily) =>
                  /\ last'.res = "FontNotFound"
                  /\ DocumentState' = DocumentState
            /\ last'.op = "set_font" =>
                  \A family \in FontNames, size \in Sizes :
                      set_font(family, size) => SetFontAnswer(family, size) ]_vars

\* Bold italic was chosen under an earlier family; selecting "a-bold" at 16 pt
\* kept both.
C29_Witness ==
    /\ last = Result("set_font", "Ok")
    /\ current_family = "a-bold"
    /\ current_font_size = 16
    /\ current_weight = "Bold"
    /\ current_style = "Italic"

(***************************************************************************)
(* C30. set_font_fallback(family, chain) fails with FontNotFound and       *)
(* leaves every stored chain as it was when the family or an entry of the  *)
(* chain is neither a family nor a legacy font; otherwise the chain stored *)
(* for the family becomes exactly the given list, whatever was stored      *)
(* before, and the chains of the other families stay.                      *)
(***************************************************************************)
FallbackAnswer(family, chain) ==
    IF NameIsRegistered(family) /\ \A i \in DOMAIN chain : NameIsRegistered(chain[i])
    THEN /\ last' = Result("set_font_fallback", "Ok")
         /\ DOMAIN font_fallbacks' = DOMAIN font_fallbacks \cup {family}
         /\ font_fallbacks'[family] = chain
         /\ \A other \in DOMAIN font_fallbacks \ {family} :
                font_fallbacks'[other] = font_fallbacks[other]
    ELSE /\ last'.op = "set_font_fallback"
         /\ last'.res = "FontNotFound"
         /\ DocumentState' = DocumentState

C30_FallbackChainReplaced ==
    [][ last'.op = "set_font_fallback" =>
            \A fb \in SegFallbacks :
                SetFontFallback(fb[1], fb[2]) => FallbackAnswer(fb[1], fb[2]) ]_vars

\* Both families have a chain, the one of "a" being the two-entry list, and a
\* text was segmented under an earlier chain of "a".
C30_Witness ==
    /\ last = Result("set_font_fallback", "Ok")
    /\ DOMAIN font_fallbacks = {"a", "a-bold"}
    /\ font_fallbacks["a"] = <<"a", "a-bold">>
    /\ Len(buffered_text_ops) = 3

(***************************************************************************)
(* C31. Saving a template that has gone through no insert and no page      *)
(* operation adds no object to the graph and leaves every object, the page *)
(* dictionaries included, as it was; the page count is that of the         *)
(* template.  (Fonts that were registered but never used do not count.)    *)
(***************************************************************************)
OnlySaved == \A i \in DOMAIN history : history[i] = "save"

C31_OpenSaveKeepsGraph ==
    [][ (OnlySaved /\ SaveStep) =>
            /\ objects' = objects
            /\ max_id' = max_id
            /\ page_count' = page_count ]_vars

\* The template whose page has a Contents array was saved right after open:
\* still five objects, no font object, one page with its two streams.
C31_Witness ==
    /\ history = <<"save">>
    /\ last = Result("save", "Ok")
    /\ font_families = EmptyMap
    /\ page_count = 1
    /\ max_id = 5
    /\ Len(objects) = 5
    /\ ObjectsOfKind(objects, FontKinds) = {}
    /\ PageContent(1) = <<TemplateBlock, TemplateBlock>>

(***************************************************************************)
(* C32. The encode phase of save turns each buffered text op into exactly  *)
(* one block on the op's page, in op order; the block's operators are BT,  *)
(* rg, Tf, Td, Tj, ET, without Tm; Td carries the op's stored x and y      *)
(* unchanged and Tf the op's own resource tag and size.                    *)
(***************************************************************************)
Buffer(b, page) == IF page \in DOMAIN b THEN b[page] ELSE << >>

OpsOfPage(page) == SelectSeq(buffered_text_ops, LAMBDA op : op.page = page)

EmittedFor(page) ==
    SubSeq(Buffer(page_content_buffer', page),
           Len(Buffer(page_content_buffer, page)) + 1,
           Len(Buffer(page_content_buffer', page)))

BlockOfOp(block, op) ==
    /\ block.kind = "text"
    /\ block.operators = <<"BT", "rg", "Tf", "Td", "Tj", "ET">>
    /\ \A i \in DOMAIN block.operators : block.operators[i] # "Tm"
    /\ block.x = op.x
    /\ block.y = op.y
    /\ block.tag = op.font_resource_name
    /\ block.font_size = op.font_size
    /\ block.text = op.text

C32_OneBlockPerOp ==
    [][ EncodeStep =>
            \A page \in 1..page_count :
                /\ Len(EmittedFor(page)) = Len(OpsOfPage(page))
                /\ \A i \in DOMAIN OpsOfPage(page) :
                       BlockOfOp(EmittedFor(page)[i], OpsOfPage(page)[i]) ]_vars

\* "BA" was inserted right-aligned at x = 100 pt, size 16, and saved: its
\* block in the page content starts left of 100 pt, at the x stored at insert.
C32_Witness ==
    /\ last = Result("save", "Ok")
    /\ \E i \in DOMAIN PageContent(1) :
          /\ PageContent(1)[i].kind = "text"
          /\ PageContent(1)[i].text = <<66, 65>>
          /\ PageContent(1)[i].font_size = 16
          /\ PageContent(1)[i].x = 10000 - text_width_points(get_font_data("a"), <<66, 65>>, 16)
          /\ PageContent(1)[i].y = 84189 - 5000

(***************************************************************************)
(* C33. The ToUnicode CMap generated for a used set lists every used code  *)
(* point exactly once, in ascending order, in bfchar blocks of at most 100 *)
(* entries whose declared count is their size; the entries number as many  *)
(* as the used set, and an empty used set gives no block.                  *)
(***************************************************************************)
RECURSIVE CodePointsOf(_, _)
CodePointsOf(cmap, k) ==
    IF k > Len(cmap) THEN << >>
    ELSE [j \in DOMAIN cmap[k].entries |-> cmap[k].entries[j][2]] \o CodePointsOf(cmap, k + 1)

CMapListsUsedSet(cmap, used) ==
    LET listed == CodePointsOf(cmap, 1) IN
    /\ \A k \in DOMAIN cmap :
          /\ cmap[k].count = Len(cmap[k].entries)
          /\ cmap[k].count >= 1
          /\ cmap[k].count <= 100
    /\ Len(listed) = Cardinality(used)
    /\ {listed[i] : i \in DOMAIN listed} = used
    /\ \A i \in 1..(Len(listed) - 1) : listed[i] < listed[i + 1]
    /\ used = {} => cmap = << >>

C33_ToUnicodeChunks ==
    last.op = "generate_tounicode_cmap" => CMapListsUsedSet(last.cmap, last.used)

\* 201 used code points: two blocks of 100 and one of 1.
C33_Witness ==
    /\ last.op = "generate_tounicode_cmap"
    /\ Cardinality(last.used) = 201
    /\ Len(last.cmap) = 3
    /\ last.cmap[1].count = 100
    /\ last.cmap[3].count = 1
    /\ last.cmap[1].entries[1][2] < last.cmap[3].entries[1][2]

(***************************************************************************)
(* C34. When a save completes, the buffered text op list and the           *)
(* accumulator of every page are empty.  During a save the content of a    *)
(* page grows only in the flush phase and only by the blocks accumulated   *)
(* for that page, each once; the encode phase moves each buffered op to    *)
(* the accumulator of its page once.  So a save that follows a save adds   *)
(* no block, and every insert shows in its page exactly once.              *)
(***************************************************************************)
BuffersEmpty ==
    /\ buffered_text_ops = << >>
    /\ \A page \in DOMAIN page_content_buffer : page_content_buffer[page] = << >>

SaveMovesBlocksOnce ==
    \A page \in 1..page_count :
        /\ PageContent(page)' =
              PageContent(page) \o
                  (IF pc = "flush" THEN Buffer(page_content_buffer, page) ELSE << >>)
        /\ Len(Buffer(page_content_buffer', page)) =
              IF pc = "flush" THEN 0
              ELSE IF pc = "encode"
                   THEN Len(Buffer(page_content_buffer, page)) + Len(OpsOfPage(page))
              ELSE Len(Buffer(page_content_buffer, page))

C34_SaveDrainsBuffers ==
    [][ SaveStep =>
            /\ SaveMovesBlocksOnce
            /\ pc' = Idle => BuffersEmpty' ]_vars

\* One text was inserted on page 1 and the document saved twice: the page
\* holds the template block and the text block once, and nothing is pending.
C34_Witness ==
    /\ history = <<"insert_text", "save", "save">>
    /\ last = Result("save", "Ok")
    /\ BuffersEmpty
    /\ Len(InsertedBlocks(PageContent(1))) = 1
    /\ Len(PageContent(1)) = 2

(***************************************************************************)
(* C35. After a save, every text block in a page's content, the blocks of  *)
(* earlier saves included, is encoded with the glyph ids of the font       *)
(* object that the block's tag names in the page's Font dictionary: also   *)
(* when an insert_text between two saves added characters to the variant.  *)
(***************************************************************************)
\* The subset a Type0 object was embedded with: its face and its characters.
EmbeddedSubset(type0) ==
    LET cid == objects[objects[type0].descendant]
        file == objects[objects[cid.descriptor].fontfile]
    IN [ttf |-> file.ttf, has_subset |-> TRUE,
        subset_chars |-> objects[objects[type0].tounicode].chars]

BlockMatchesFont(page_dict, block) ==
    /\ block.tag \in DOMAIN page_dict.font
    /\ block.hex = encode_text_hex_remapped(EmbeddedSubset(page_dict.font[block.tag]),
                                            block.text)

C35_OldBlocksMatchNewFont ==
    (pc = Idle /\ last = Result("save", "Ok")) =>
        \A page \in 1..page_count :
            \A i \in DOMAIN PageContent(page) :
                PageContent(page)[i].kind = "text" =>
                    BlockMatchesFont(objects[get_pages[page]], PageContent(page)[i])

(***************************************************************************)
(* C36. Attaching a font or an image to a page keeps what the page's       *)
(* Resources already hold: the other resource categories and the           *)
(* template's own Font and XObject entries stay, none of them is replaced  *)
(* by a tag the engine mints, also when Resources is an indirect           *)
(* reference.                                                              *)
(***************************************************************************)
TemplateEntries(dict) ==
    {t \in DOMAIN dict : objects[dict[t]].kind \in {"templatefont", "templateimage"}}

EntriesKept(old, new) ==
    \A t \in TemplateEntries(old) : t \in DOMAIN new /\ new[t] = old[t]

C36_TemplateResourcesKept ==
    [][ \A page \in 1..page_count :
            LET old == objects[get_pages[page]]
                new == objects'[get_pages[page]]
            IN /\ EntriesKept(old.font, new.font)
               /\ EntriesKept(old.xobject, new.xobject)
               /\ new.extgstate = old.extgstate ]_vars

(***************************************************************************)
(* C37. Every font name that holds a resource tag on some page names a     *)
(* registered descriptor with a non-empty used set, and the page exists;   *)
(* save never fails with FontNotFound or InvalidPage.                      *)
(***************************************************************************)
TagsAreAttachable ==
    \A page \in DOMAIN page_font_resources :
        \A font_name \in DOMAIN page_font_resources[page] :
            page \in 1..page_count /\ font_name \in UsedNames

C37_SaveFindsEveryTaggedFont ==
    /\ TagsAreAttachable
    /\ ~(last.op = "save" /\ last.res \in {"FontNotFound", "InvalidPage"})

(***************************************************************************)
(* C38. After add_blank_page or duplicate_page the new page dictionary     *)
(* has a Parent entry that refers to the Pages node whose Kids array lists *)
(* it, and the Count of the Pages node is the number of pages beneath it.  *)
(***************************************************************************)
ListedByParent(id) ==
    LET parent == ParentOf(objects[id]) IN
    /\ parent # 0
    /\ objects[parent].kind = "pages"
    /\ \E k \in DOMAIN objects[parent].kids : objects[parent].kids[k] = id

C38_NewPageLinkedToParent ==
    last.op \in {"add_blank_page", "duplicate_page"} /\ last.res = "Ok" =>
        /\ ListedByParent(get_pages[page_count])
        /\ objects[RootPagesId].count = page_count

(***************************************************************************)
(* C39. insert_image embeds data as a JPEG (DCTDecode) only when the data  *)
(* starts with FF D8 FF, and data that starts with the PNG signature is    *)
(* always embedded through the PNG path (FlateDecode).                     *)
(***************************************************************************)
StartsWith(data, prefix) ==
    Len(data) >= Len(prefix) /\ SubSeq(data, 1, Len(prefix)) = prefix

C39_FormatBySignature ==
    \A id \in DOMAIN objects :
        objects[id].kind = "image" =>
            /\ objects[id].filter = "DCTDecode" =>
                   StartsWith(Bytes(objects[id].data), <<255, 216, 255>>)
            /\ StartsWith(Bytes(objects[id].data), PngSignature) =>
                   objects[id].filter = "FlateDecode"

====
